---- MODULE Spec2Model ----
(***************************************************************************)
(* Brazilian checkers played by two alpha-beta agents                      *)
(* (src/checkersRefactor.py, src/checkers.py).                             *)
(*                                                                         *)
(* The board, the move generator, the evaluator and the search are pure    *)
(* operators; the game controller (CheckersGame.start_game / jogar) is the *)
(* state machine Spec, one action per iteration of its turn loop.          *)
(*                                                                         *)
(* Scores are fixed-point integers in units of 1/10000: the source adds    *)
(* Python floats, the model adds the same terms with the distance to the   *)
(* centre rounded to three decimals.                                       *)
(***************************************************************************)
EXTENDS Integers, Sequences, FiniteSets, TLC

\* ------------------------------------------------------------------ types
\* PieceType (checkersRefactor.py 58-64), the glyphs gerar_movimentos uses.
EMPTY == "."
X == "x"
O == "o"
X_KING == "D"
O_KING == "d"

PieceTypes == {EMPTY, X, O, X_KING, O_KING}

\* Player (checkersRefactor.py 20-23): Player.X.value = 'x', Player.O.value = 'o'.
PlayerX == "x"
PlayerO == "o"
Players == {PlayerX, PlayerO}

\* GamePhase (checkersRefactor.py 13-17).
OPENING == "OPENING"
MIDDLE == "MIDDLE"
ENDGAME == "ENDGAME"

\* Python's None, where a Move or a Position is expected (both are records).
None == [none |-> TRUE]

Rows == 0..7
Cols == 0..7

\* Position(row, col) (checkersRefactor.py 26-30).
Position(row, col) == [row |-> row, col |-> col]

\* Position.is_valid / dentro.
is_valid(position) ==
    /\ 0 <= position.row /\ position.row < 8
    /\ 0 <= position.col /\ position.col < 8

\* Position.__add__ with the column offset left out.
PosAddRowOnly(p, q) == Position(p.row + q.row, p.col)

\* Position.__add__.
PosAdd(p, q) == Position(p.row + q.row, p.col + q.col)

\* Position.manhattan_distance.
Abs(n) == IF n < 0 THEN -n ELSE n
manhattan_distance(p, q) == Abs(p.row - q.row) + Abs(p.col - q.col)

\* Move(start, end, is_capture, captured_position) (checkersRefactor.py 49-55).
Move(start, end, is_capture, captured_position) ==
    [start |-> start, end |-> end, is_capture |-> is_capture,
     captured_position |-> captured_position]

\* ------------------------------------------------------------------ board
\* A grid is the list of lists CheckersBoard.board: grid[row][col].
EmptyGrid == [row \in Rows |-> [col \in Cols |-> EMPTY]]

\* CheckersBoard.__init__ + _setup_board / criar_tabuleiro.
setup_board ==
    [row \in Rows |-> [col \in Cols |->
        IF row < 3 /\ (row + col) % 2 = 1 THEN O
        ELSE IF row >= 5 /\ (row + col) % 2 = 1 THEN X
        ELSE EMPTY]]

\* A Python list index: a negative index counts from the end of the list.
PyIndex(i) == IF i < 0 THEN i + 8 ELSE i

\* CheckersBoard.get_piece: self.board[position.row][position.col].
get_piece(grid, position) == grid[PyIndex(position.row)][PyIndex(position.col)]

\* CheckersBoard.set_piece, as the grid it leaves behind.
set_piece(grid, position, piece_type) ==
    [grid EXCEPT ![PyIndex(position.row)][PyIndex(position.col)] = piece_type]

\* CheckersBoard.remove_piece.
remove_piece(grid, position) == set_piece(grid, position, EMPTY)

\* CheckersBoard.is_empty.
is_empty(grid, position) == get_piece(grid, position) = EMPTY

\* CheckersBoard.is_enemy_piece / eh_inimigo.
is_enemy_piece(grid, position, player) ==
    IF player = PlayerX
    THEN get_piece(grid, position) \in {O, O_KING}
    ELSE get_piece(grid, position) \in {X, X_KING}

\* CheckersBoard.is_player_piece.
is_player_piece(grid, position, player) ==
    IF player = PlayerX
    THEN get_piece(grid, position) \in {X, X_KING}
    ELSE get_piece(grid, position) \in {O, O_KING}

\* CheckersBoard.is_king.
is_king(grid, position) == get_piece(grid, position) \in {X_KING, O_KING}

\* promote_if_needed that promotes nothing.
promote_if_needed_never(grid, position) == grid

\* promote_if_needed with row 0 as the promotion row of both players.
promote_if_needed_row_0(grid, position) ==
    IF get_piece(grid, position) = X /\ position.row = 0
    THEN set_piece(grid, position, X_KING)
    ELSE IF get_piece(grid, position) = O /\ position.row = 0
    THEN set_piece(grid, position, O_KING)
    ELSE grid

\* CheckersBoard.promote_if_needed, as the grid it leaves behind.
promote_if_needed(grid, position) ==
    IF get_piece(grid, position) = X /\ position.row = 0
    THEN set_piece(grid, position, X_KING)
    ELSE IF get_piece(grid, position) = O /\ position.row = 7
    THEN set_piece(grid, position, O_KING)
    ELSE grid

\* apply_move without the removal of the captured piece (lines 150-151).
apply_move_keep_captured(grid, move) ==
    LET piece == get_piece(grid, move.start)
        g1 == remove_piece(grid, move.start)
        g2 == set_piece(g1, move.end, piece)
    IN  promote_if_needed(g2, move.end)

\* CheckersBoard.apply_move: the grid of the receiver after the call.
apply_move(grid, move) ==
    LET piece == get_piece(grid, move.start)
        g1 == remove_piece(grid, move.start)
        g2 == set_piece(g1, move.end, piece)
        g3 == IF move.is_capture /\ move.captured_position # None
              THEN remove_piece(g2, move.captured_position)
              ELSE g2
    IN  promote_if_needed(g3, move.end)

\* CheckersBoard.count_pieces / contar_pecas: <<x_pieces, o_pieces>>.
CountOf(grid, pieces) ==
    Cardinality({k \in 0..63 : grid[k \div 8][k % 8] \in pieces})

count_pieces(grid) ==
    <<CountOf(grid, {X, X_KING}), CountOf(grid, {O, O_KING})>>

\* hash_position with a king written as the man of its colour.
hash_position_men_only(grid) ==
    [k \in 1..64 |->
        LET piece == grid[(k - 1) \div 8][(k - 1) % 8]
        IN  IF piece = X_KING THEN X ELSE IF piece = O_KING THEN O ELSE piece]

\* CheckersBoard.hash_position / calcular_hash_tabuleiro: the 64 glyphs, row
\* after row, joined into one string (here: one sequence of 64 glyphs).
hash_position(grid) == [k \in 1..64 |-> grid[(k - 1) \div 8][(k - 1) % 8]]

\* A (new_board, move) pair of the lists the generator returns.
Pair(new_board, move) == [board |-> new_board, move |-> move]

\* -------------------------------------------------------- move generator
\* The direction lists of MoveGenerator.get_piece_directions (lines 202-208).
UP_DIRECTIONS == <<Position(-1, -1), Position(-1, 1)>>
DOWN_DIRECTIONS == <<Position(1, -1), Position(1, 1)>>
KING_DIRECTIONS == <<Position(-1, -1), Position(-1, 1), Position(1, -1), Position(1, 1)>>

\* get_piece_directions with the four directions for every piece.
get_piece_directions_as_king(grid, position) ==
    IF get_piece(grid, position) \in {X, O, X_KING, O_KING}
    THEN KING_DIRECTIONS
    ELSE <<>>

\* MoveGenerator.get_piece_directions.
get_piece_directions(grid, position) ==
    LET piece == get_piece(grid, position)
    IN  IF piece = X THEN UP_DIRECTIONS
        ELSE IF piece = O THEN DOWN_DIRECTIONS
        ELSE IF piece \in {X_KING, O_KING} THEN KING_DIRECTIONS
        ELSE <<>>

\* The test of MoveGenerator._check_capture (lines 256-264): the adjacent
\* square holds an enemy piece and the square behind it is on the board and
\* empty. gerar_movimentos line 68 tests the same squares.
can_capture(grid, position, direction, player) ==
    LET enemy_pos == PosAdd(position, direction)
        landing_pos == PosAdd(enemy_pos, direction)
    IN  /\ is_valid(enemy_pos) /\ is_valid(landing_pos)
        /\ is_enemy_piece(grid, enemy_pos, player)
        /\ is_empty(grid, landing_pos)

\* MoveGenerator._check_capture: the list of (new_board, move) pairs, at most
\* one; new_board is a clone of the board with the move applied (266-270).
check_capture(grid, position, direction, player) ==
    LET enemy_pos == PosAdd(position, direction)
        landing_pos == PosAdd(enemy_pos, direction)
    IN  IF can_capture(grid, position, direction, player)
        THEN LET move == Move(position, landing_pos, TRUE, enemy_pos)
             IN  << Pair(apply_move(grid, move), move) >>
        ELSE <<>>

\* The else branch of the loop over directions (lines 237-245): reached only
\* when _check_capture found nothing in this direction.
can_step(grid, position, direction, player) ==
    /\ ~can_capture(grid, position, direction, player)
    /\ is_valid(PosAdd(position, direction))
    /\ is_empty(grid, PosAdd(position, direction))

regular_move(grid, position, direction) ==
    LET move == Move(position, PosAdd(position, direction), FALSE, None)
    IN  Pair(apply_move(grid, move), move)

\* The iterations of the nested loops of generate_moves (lines 218-230) that
\* reach the loop body, numbered in the order the loops visit them:
\* 32*row + 4*col + (index of the direction in the piece's list).
KeyPosition(key) == Position(key \div 32, (key \div 4) % 8)
KeyDirection(grid, key) == get_piece_directions(grid, KeyPosition(key))[(key % 4) + 1]

LoopKeys(grid, player) ==
    UNION {{4 * k + d : d \in 0..(Len(get_piece_directions(grid, Position(k \div 8, k % 8))) - 1)} :
           k \in {sq \in 0..63 : is_player_piece(grid, Position(sq \div 8, sq % 8), player)}}

\* The i-th smallest element of a set of numbers.
Nth(S, i) == CHOOSE n \in S : Cardinality({m \in S : m < n}) = i - 1

\* The element of a one-element set. The({F(v) : v \in {e}}) is F(e) with e
\* evaluated once.
The(S) == CHOOSE v \in S : TRUE

\* The pairs appended in the iterations keys, in loop order.
KeyMoves(grid, player, keys, capture) ==
    [i \in 1..Cardinality(keys) |->
        The({ IF capture
              THEN check_capture(grid, KeyPosition(key), KeyDirection(grid, key), player)[1]
              ELSE regular_move(grid, KeyPosition(key), KeyDirection(grid, key)) :
              key \in {Nth(keys, i)} })]

\* capture_moves and regular_moves when the loops are done.
capture_moves(grid, player) ==
    The({ KeyMoves(grid, player, keys, TRUE) :
          keys \in { {key \in LoopKeys(grid, player) :
                        can_capture(grid, KeyPosition(key), KeyDirection(grid, key),
                                    player)} } })

regular_moves(grid, player) ==
    The({ KeyMoves(grid, player, keys, FALSE) :
          keys \in { {key \in LoopKeys(grid, player) :
                        can_step(grid, KeyPosition(key), KeyDirection(grid, key),
                                 player)} } })

\* generate_moves without the forced-capture filter of lines 246-249.
generate_moves_unfiltered(grid, player) ==
    The({ [moves |-> captures \o regular_moves(grid, player),
           has_captures |-> Len(captures) > 0] :
          captures \in {capture_moves(grid, player)} })

\* MoveGenerator.generate_moves / gerar_movimentos: (moves, has_captures).
generate_moves(grid, player) ==
    The({ [moves |-> IF Len(captures) > 0 THEN captures ELSE regular_moves(grid, player),
           has_captures |-> Len(captures) > 0] :
          captures \in {capture_moves(grid, player)} })

\* ------------------------------------------------------------- evaluator
\* GameEvaluator.determine_game_phase / fase_do_jogo.
determine_game_phase(grid) ==
    LET total_pieces == count_pieces(grid)[1] + count_pieces(grid)[2]
    IN  IF total_pieces > 16 THEN OPENING
        ELSE IF total_pieces > 8 THEN MIDDLE
        ELSE ENDGAME

\* game_phase = None in evaluate's signature (phases are strings here).
NoPhase == "None"

\* Scores are integers in units of 1/10000.
PIECE_WEIGHT == 100000
KING_WEIGHT == 250000

\* Bound of random.uniform(-0.1, 0.1), in score units.
JITTER == 1000

\* GameEvaluator._distance_to_center for square 8*row + col, in units of
\* 1/1000, rounded down: ((row - 3.5)^2 + (col - 3.5)^2) ^ 0.5.
distance_to_center ==
    [k \in 0..63 |->
        LET v == (2 * (k \div 8) - 7) * (2 * (k \div 8) - 7)
                 + (2 * (k % 8) - 7) * (2 * (k % 8) - 7)
        IN  CHOOSE d \in 0..5000 : d * d <= 250000 * v /\ (d + 1) * (d + 1) > 250000 * v]

\* The least element of a non-empty set of numbers.
MinOf(S) == CHOOSE n \in S : \A m \in S : n <= m

\* GameEvaluator._distance_to_nearest_enemy / distancia_ao_inimigo_mais_proximo.
distance_to_nearest_enemy(grid, position) ==
    LET enemy_pieces == IF get_piece(grid, position) \in {X, X_KING}
                        THEN {O, O_KING} ELSE {X, X_KING}
        dists == {manhattan_distance(position, Position(k \div 8, k % 8)) :
                    k \in {sq \in 0..63 : grid[sq \div 8][sq % 8] \in enemy_pieces}}
    IN  IF dists = {} THEN 8 ELSE MinOf(dists)

\* What one square adds to the score in evaluate (lines 315-342).
SquareScore(grid, k, game_phase) ==
    LET row == k \div 8
        piece == grid[k \div 8][k % 8]
        advance_weight == IF game_phase = OPENING THEN 3000 ELSE 1000
        center_weight == IF game_phase = MIDDLE THEN 5 ELSE 2
        proximity_weight == IF game_phase = OPENING THEN 0
                            ELSE IF game_phase = ENDGAME THEN 10000 ELSE 3000
        center == center_weight * (4000 - distance_to_center[k])
        near == IF game_phase = ENDGAME
                THEN proximity_weight
                     * (8 - distance_to_nearest_enemy(grid, Position(k \div 8, k % 8)))
                ELSE 0
    IN  IF piece = X THEN PIECE_WEIGHT + advance_weight * (7 - row) + center + near
        ELSE IF piece = X_KING THEN KING_WEIGHT + center
        ELSE IF piece = O THEN -(PIECE_WEIGHT + advance_weight * row) - center - near
        ELSE IF piece = O_KING THEN -KING_WEIGHT - center
        ELSE 0

\* The loop over the squares lo..hi of evaluate (lines 312-313).
RECURSIVE ScoreRange(_, _, _, _)
ScoreRange(grid, lo, hi, game_phase) ==
    IF lo = hi THEN SquareScore(grid, lo, game_phase)
    ELSE ScoreRange(grid, lo, (lo + hi) \div 2, game_phase)
         + ScoreRange(grid, (lo + hi) \div 2 + 1, hi, game_phase)

\* GameEvaluator.evaluate / avaliar. jitter is the value random.uniform(-0.1,
\* 0.1) returns, added in ENDGAME only (lines 345-346).
evaluate(grid, game_phase, jitter) ==
    The({ ScoreRange(grid, 0, 63, phase) + (IF phase = ENDGAME THEN jitter ELSE 0) :
          phase \in {IF game_phase = NoPhase THEN determine_game_phase(grid)
                     ELSE game_phase} })

\* ---------------------------------------------------------------- search
\* float('inf'): larger than every score.
INF == 1000000000

\* AIPlayer._is_game_over / jogo_terminou / CheckersGame._check_game_over.
is_game_over(grid) ==
    \/ generate_moves(grid, PlayerX).moves = <<>>
    \/ generate_moves(grid, PlayerO).moves = <<>>

Max(a, b) == IF a >= b THEN a ELSE b
Min(a, b) == IF a <= b THEN a ELSE b

\* AIPlayer._alpha_beta / alfa_beta: (score, best_board, best_move). jitter is
\* the value the evaluator's random draws take during this search.
\* LoopRange runs the iterations lo..hi of the loop over moves from the loop
\* state s = [best_eval, best_board, best_move, alpha, beta, broke]. pruned
\* records that a break left moves of some loop of the search unvisited.
RECURSIVE alpha_beta(_, _, _, _, _, _, _), LoopRange(_, _, _, _, _, _, _, _)

\* The loop body with alpha and beta handed to the recursive call in the
\* wrong order.
LoopBodySwappedWindow(s, pair, depth, maximizing, game_phase, jitter) ==
    LET child == alpha_beta(pair.board, depth - 1, s.beta, s.alpha,
                            ~maximizing, game_phase, jitter)
        eval_score == child.score
        better == IF maximizing THEN eval_score > s.best_eval
                  ELSE eval_score < s.best_eval
        alpha == IF maximizing THEN Max(s.alpha, eval_score) ELSE s.alpha
        beta == IF maximizing THEN s.beta ELSE Min(s.beta, eval_score)
    IN  [best_eval |-> IF better THEN eval_score ELSE s.best_eval,
         best_board |-> IF better THEN pair.board ELSE s.best_board,
         best_move |-> IF better THEN pair.move ELSE s.best_move,
         alpha |-> alpha, beta |-> beta, broke |-> beta <= alpha,
         pruned |-> s.pruned \/ child.pruned]

\* The loop body with >= and <= for the strict comparisons of lines 421 and
\* 438.
LoopBodyLastBest(s, pair, depth, maximizing, game_phase, jitter) ==
    LET child == alpha_beta(pair.board, depth - 1, s.alpha, s.beta,
                            ~maximizing, game_phase, jitter)
        eval_score == child.score
        better == IF maximizing THEN eval_score >= s.best_eval
                  ELSE eval_score <= s.best_eval
        alpha == IF maximizing THEN Max(s.alpha, eval_score) ELSE s.alpha
        beta == IF maximizing THEN s.beta ELSE Min(s.beta, eval_score)
    IN  [best_eval |-> IF better THEN eval_score ELSE s.best_eval,
         best_board |-> IF better THEN pair.board ELSE s.best_board,
         best_move |-> IF better THEN pair.move ELSE s.best_move,
         alpha |-> alpha, beta |-> beta, broke |-> beta <= alpha,
         pruned |-> s.pruned \/ child.pruned]

\* The body of the loops over moves (lines 419-431 and 436-448).
LoopBody(s, pair, depth, maximizing, game_phase, jitter) ==
    LET child == alpha_beta(pair.board, depth - 1, s.alpha, s.beta,
                            ~maximizing, game_phase, jitter)
        eval_score == child.score
        better == IF maximizing THEN eval_score > s.best_eval
                  ELSE eval_score < s.best_eval
        alpha == IF maximizing THEN Max(s.alpha, eval_score) ELSE s.alpha
        beta == IF maximizing THEN s.beta ELSE Min(s.beta, eval_score)
    IN  [best_eval |-> IF better THEN eval_score ELSE s.best_eval,
         best_board |-> IF better THEN pair.board ELSE s.best_board,
         best_move |-> IF better THEN pair.move ELSE s.best_move,
         alpha |-> alpha, beta |-> beta, broke |-> beta <= alpha,
         pruned |-> s.pruned \/ child.pruned]

LoopRange(s, moves, lo, hi, depth, maximizing, game_phase, jitter) ==
    IF lo > hi THEN s
    ELSE IF s.broke THEN [s EXCEPT !.pruned = TRUE]
    ELSE IF lo = hi THEN LoopBody(s, moves[lo], depth, maximizing, game_phase, jitter)
    ELSE LoopRange(LoopRange(s, moves, lo, (lo + hi) \div 2, depth, maximizing,
                             game_phase, jitter),
                   moves, (lo + hi) \div 2 + 1, hi, depth, maximizing, game_phase, jitter)

\* _alpha_beta without the game-over test of line 399.
alpha_beta_no_game_over_test(grid, depth, alpha, beta, maximizing, game_phase, jitter) ==
    IF depth = 0
    THEN [score |-> evaluate(grid, game_phase, jitter), board |-> grid, move |-> None,
          pruned |-> FALSE]
    ELSE LET current_player == IF maximizing THEN PlayerO ELSE PlayerX
             moves == generate_moves(grid, current_player).moves
         IN  IF moves = <<>>
             THEN [score |-> evaluate(grid, game_phase, jitter), board |-> grid,
                   move |-> None, pruned |-> FALSE]
             ELSE LET s == LoopRange([best_eval |-> IF maximizing THEN -INF ELSE INF,
                                      best_board |-> None, best_move |-> None,
                                      alpha |-> alpha, beta |-> beta, broke |-> FALSE,
                                      pruned |-> FALSE],
                                     moves, 1, Len(moves), depth, maximizing,
                                     game_phase, jitter)
                  IN  [score |-> s.best_eval, board |-> s.best_board,
                       move |-> s.best_move, pruned |-> s.pruned]

alpha_beta(grid, depth, alpha, beta, maximizing, game_phase, jitter) ==
    IF depth = 0 \/ is_game_over(grid)
    THEN [score |-> evaluate(grid, game_phase, jitter), board |-> grid, move |-> None,
          pruned |-> FALSE]
    ELSE LET current_player == IF maximizing THEN PlayerO ELSE PlayerX
             moves == generate_moves(grid, current_player).moves
         IN  IF moves = <<>>
             THEN [score |-> evaluate(grid, game_phase, jitter), board |-> grid,
                   move |-> None, pruned |-> FALSE]
             ELSE LET s == LoopRange([best_eval |-> IF maximizing THEN -INF ELSE INF,
                                      best_board |-> None, best_move |-> None,
                                      alpha |-> alpha, beta |-> beta, broke |-> FALSE,
                                      pruned |-> FALSE],
                                     moves, 1, Len(moves), depth, maximizing,
                                     game_phase, jitter)
                  IN  [score |-> s.best_eval, board |-> s.best_board,
                       move |-> s.best_move, pruned |-> s.pruned]

\* ------------------------------------------------------- game controller
\* CheckersGame.max_turns (line 473) / max_turnos.
max_turns == 200

\* The no-capture limit of start_game line 504 / jogar line 258.
DRAW_LIMIT == 40

\* The two programs that run this loop: CheckersGame.start_game and jogar.
REFACTOR == "checkersRefactor.py"
ORIGINAL == "checkers.py"
Impls == {REFACTOR, ORIGINAL}

\* The states of the controller.
PLAYING == "Playing"
DRAW == "Draw"
WIN_X == "Win(X)"
WIN_O == "Win(O)"
TURN_LIMIT == "TurnLimitReached"

\* CheckersGame._determine_search_depth / jogar line 220.
determine_search_depth(game_phase) ==
    IF game_phase = OPENING THEN 4
    ELSE IF game_phase = MIDDLE THEN 5
    ELSE 6

\* CheckersGame._track_position / jogar lines 223-224: the history after it.
track_position(history, grid) ==
    LET current_hash == hash_position(grid)
    IN  IF current_hash \in DOMAIN history
        THEN [history EXCEPT ![current_hash] = @ + 1]
        ELSE history @@ (current_hash :> 1)

\* AIPlayer.choose_move: the (best_board, best_move) pairs _alpha_beta can
\* return at the root. The scores that pick among the generated pairs carry,
\* in ENDGAME, one random draw per evaluated leaf: the controller admits
\* every generated pair.
choose_move(grid, depth, player) ==
    The({ IF depth = 0 \/ moves = <<>> \/ is_game_over(grid)
          THEN {Pair(grid, None)}
          ELSE {moves[i] : i \in 1..Len(moves)} :
          moves \in {generate_moves(grid, player).moves} })

\* CheckersGame._choose_random_move / jogar lines 234-236: what random.choice
\* can return; with no moves the Refactor returns (self.board, None).
choose_random_move(grid, player) ==
    The({ IF moves # <<>>
          THEN {moves[i] : i \in 1..Len(moves)}
          ELSE {Pair(grid, None)} :
          moves \in {generate_moves(grid, player).moves} })

\* AIPlayer.__init__ (line 381): the maximizing flag of the agent that
\* _select_next_move picks for player (line 558); jogar passes turno_ia, of
\* which jogador is 'o' exactly when it is true (line 212).
ai_maximizing(player) == player = PlayerO

\* A selection: the pair the turn plays, the depths of the searches the turn
\* ran (in call order) and whether random.choice supplied the pair.
Selection(pair, searches, random) ==
    [pair |-> pair, searches |-> searches, random |-> random]

\* _select_next_move with the test of line 547 off by one (> 3).
select_next_move_late(grid, player, depth, count) ==
    IF count > 3 /\ count > 4
    THEN {Selection(pair, <<>>, generate_moves(grid, player).moves # <<>>) :
            pair \in choose_random_move(grid, player)}
    ELSE LET used == IF count > 3 THEN 2 ELSE depth
         IN  {Selection(pair, <<used>>, FALSE) : pair \in choose_move(grid, used, player)}

\* CheckersGame._select_next_move (lines 542-559), count = the occurrence
\* count of the current board after _track_position.
select_next_move_refactor(grid, player, depth, count) ==
    IF count > 2 /\ count > 4
    THEN {Selection(pair, <<>>, generate_moves(grid, player).moves # <<>>) :
            pair \in choose_random_move(grid, player)}
    ELSE LET used == IF count > 2 THEN 2 ELSE depth
         IN  {Selection(pair, <<used>>, FALSE) : pair \in choose_move(grid, used, player)}

\* jogar lines 227-240: on a repeated position alfa_beta runs at depth 2
\* first, and random.choice then replaces its result when count > 4.
select_next_move_original(grid, player, depth, count) ==
    IF count > 2
    THEN IF count > 4 /\ generate_moves(grid, player).moves # <<>>
         THEN {Selection(pair, <<2>>, TRUE) : pair \in choose_random_move(grid, player)}
         ELSE {Selection(pair, <<2>>, FALSE) : pair \in choose_move(grid, 2, player)}
    ELSE {Selection(pair, <<depth>>, FALSE) : pair \in choose_move(grid, depth, player)}

select_next_move(impl, grid, player, depth, count) ==
    IF impl = REFACTOR
    THEN select_next_move_refactor(grid, player, depth, count)
    ELSE select_next_move_original(grid, player, depth, count)

\* _update_progress_tracking without the reset of line 577.
update_progress_tracking_no_reset(impl, turns_without_capture, move) ==
    turns_without_capture + 1

\* CheckersGame._update_progress_tracking (lines 573-588): the counter after
\* it. jogar lines 243-254 take abs(i - ni) == 2 for move.is_capture.
update_progress_tracking(impl, turns_without_capture, move) ==
    IF move # None
    THEN LET captured == IF impl = REFACTOR THEN move.is_capture
                         ELSE Abs(move.start.row - move.end.row) = 2
         IN  IF captured THEN 0 ELSE turns_without_capture + 1
    ELSE turns_without_capture + 1

\* The sign test of _show_game_result lines 634-639 / jogar 288-293.
Verdict(value) == IF value > 0 THEN "x" ELSE IF value < 0 THEN "o" ELSE "draw"

\* CheckersGame._show_game_result (lines 612-639) / jogar lines 281-293: the
\* results it can announce, as [state, winner]. The phase-less evaluate adds
\* one random draw in ENDGAME.
show_game_result(grid) ==
    IF generate_moves(grid, PlayerO).moves = <<>>
    THEN {[state |-> WIN_X, winner |-> "x"]}
    ELSE IF generate_moves(grid, PlayerX).moves = <<>>
    THEN {[state |-> WIN_O, winner |-> "o"]}
    ELSE The({ {[state |-> TURN_LIMIT, winner |-> Verdict(v)] :
                  v \in IF determine_game_phase(grid) = ENDGAME
                        THEN {value + jitter : jitter \in (-JITTER)..JITTER}
                        ELSE {value}} :
               value \in {evaluate(grid, NoPhase, 0)} })

\* The game state of the controller, before a turn or after the game.
Game(grid, player, turns, no_capture, history, st, win) ==
    [board |-> grid, current_player |-> player, turn_count |-> turns,
     turns_without_capture |-> no_capture, position_history |-> history,
     state |-> st, winner |-> win]

\* CheckersGame.__init__ + start_game lines 477-478 / jogar lines 202-208.
NewGame == Game(setup_board, PlayerO, 0, 0, <<>>, PLAYING, "none")

\* play_turn without the game-over test of lines 516-517.
play_turn_no_game_over_test(impl, g, sel) ==
    LET history == track_position(g.position_history, g.board)
        move == sel.pair.move
        no_capture == update_progress_tracking(impl, g.turns_without_capture, move)
        new_board == sel.pair.board
        next_player == IF g.current_player = PlayerO THEN PlayerX ELSE PlayerO
    IN  IF no_capture >= DRAW_LIMIT
        THEN {Game(g.board, g.current_player, g.turn_count + 1, no_capture, history,
                   DRAW, "draw")}
        ELSE IF g.turn_count + 1 < max_turns
        THEN {Game(new_board, next_player, g.turn_count + 1, no_capture, history,
                   PLAYING, "none")}
        ELSE {Game(new_board, next_player, g.turn_count + 1, no_capture, history,
                   r.state, r.winner) : r \in show_game_result(new_board)}

\* play_turn with the test of _check_game_over before the test of the draw.
play_turn_game_over_first(impl, g, sel) ==
    LET history == track_position(g.position_history, g.board)
        move == sel.pair.move
        no_capture == update_progress_tracking(impl, g.turns_without_capture, move)
        new_board == sel.pair.board
        next_player == IF g.current_player = PlayerO THEN PlayerX ELSE PlayerO
    IN  IF is_game_over(new_board)
        THEN {Game(new_board, g.current_player, g.turn_count + 1, no_capture, history,
                   r.state, r.winner) : r \in show_game_result(new_board)}
        ELSE IF no_capture >= DRAW_LIMIT
        THEN {Game(g.board, g.current_player, g.turn_count + 1, no_capture, history,
                   DRAW, "draw")}
        ELSE IF g.turn_count + 1 < max_turns
        THEN {Game(new_board, next_player, g.turn_count + 1, no_capture, history,
                   PLAYING, "none")}
        ELSE {Game(new_board, next_player, g.turn_count + 1, no_capture, history,
                   r.state, r.winner) : r \in show_game_result(new_board)}

\* play_turn with a loop that does not stop at max_turns.
play_turn_no_turn_limit(impl, g, sel) ==
    LET history == track_position(g.position_history, g.board)
        move == sel.pair.move
        no_capture == update_progress_tracking(impl, g.turns_without_capture, move)
        new_board == sel.pair.board
        next_player == IF g.current_player = PlayerO THEN PlayerX ELSE PlayerO
    IN  IF no_capture >= DRAW_LIMIT
        THEN {Game(g.board, g.current_player, g.turn_count + 1, no_capture, history,
                   DRAW, "draw")}
        ELSE IF is_game_over(new_board)
        THEN {Game(new_board, g.current_player, g.turn_count + 1, no_capture, history,
                   r.state, r.winner) : r \in show_game_result(new_board)}
        ELSE {Game(new_board, next_player, g.turn_count + 1, no_capture, history,
                   PLAYING, "none")}

\* play_turn without the switch of current_player (line 520).
play_turn_no_switch(impl, g, sel) ==
    LET history == track_position(g.position_history, g.board)
        move == sel.pair.move
        no_capture == update_progress_tracking(impl, g.turns_without_capture, move)
        new_board == sel.pair.board
    IN  IF no_capture >= DRAW_LIMIT
        THEN {Game(g.board, g.current_player, g.turn_count + 1, no_capture, history,
                   DRAW, "draw")}
        ELSE IF is_game_over(new_board)
        THEN {Game(new_board, g.current_player, g.turn_count + 1, no_capture, history,
                   r.state, r.winner) : r \in show_game_result(new_board)}
        ELSE IF g.turn_count + 1 < max_turns
        THEN {Game(new_board, g.current_player, g.turn_count + 1, no_capture, history,
                   PLAYING, "none")}
        ELSE {Game(new_board, g.current_player, g.turn_count + 1, no_capture, history,
                   r.state, r.winner) : r \in show_game_result(new_board)}

\* One iteration of the loop of start_game (lines 480-523) / jogar (210-275)
\* that plays selection sel, followed by _show_game_result when the loop ends.
\* The results are the game states the iteration can leave.
play_turn(impl, g, sel) ==
    LET history == track_position(g.position_history, g.board)
        move == sel.pair.move
        no_capture == update_progress_tracking(impl, g.turns_without_capture, move)
        new_board == sel.pair.board
        next_player == IF g.current_player = PlayerO THEN PlayerX ELSE PlayerO
    IN  IF no_capture >= DRAW_LIMIT
        THEN {Game(g.board, g.current_player, g.turn_count + 1, no_capture, history,
                   DRAW, "draw")}
        ELSE IF is_game_over(new_board)
        THEN {Game(new_board, g.current_player, g.turn_count + 1, no_capture, history,
                   r.state, r.winner) : r \in show_game_result(new_board)}
        ELSE IF g.turn_count + 1 < max_turns
        THEN {Game(new_board, next_player, g.turn_count + 1, no_capture, history,
                   PLAYING, "none")}
        ELSE {Game(new_board, next_player, g.turn_count + 1, no_capture, history,
                   r.state, r.winner) : r \in show_game_result(new_board)}

\* The selections of the turn that starts in game state g.
turn_selections(impl, g) ==
    UNION { select_next_move(impl, g.board, g.current_player,
                             determine_search_depth(determine_game_phase(g.board)), count) :
            count \in {track_position(g.position_history, g.board)[hash_position(g.board)]} }

\* ---------------------------------------------------------------------------
\* Lines of play from the initial board. A move is written as the number
\* start.row * 1000 + start.col * 100 + end.row * 10 + end.col.
\* ---------------------------------------------------------------------------

\* A line of play that promotes a king on each side with 18 pieces left
\* (OPENING), after which the two kings step back and forth.
OpeningCycle ==
    <<
      2130, 5647, 1221, 5443, 312, 6554, 2736, 5041, 1627, 6150, 516,
      6756, 2332, 4123, 1234, 7061, 1423, 7667, 2332, 7465, 112, 5445,
      3254, 4523, 5476, 2301, 7665, 112, 6576, 1201, 7665, 112, 6576,
      1201, 7665, 112, 6576, 1201, 7665, 112, 6576, 1201, 7665, 112, 6576,
      1201, 7665, 112, 6576, 1201, 7665, 112, 6576, 1201, 7665, 112, 6576,
      1201, 7665, 112, 6576, 1201, 7665, 112, 6576
    >>

\* A line of play that does the same with 15 pieces left (MIDDLE).
MiddleCycle ==
    <<
      2534, 5647, 1425, 5243, 3452, 6341, 2736, 6556, 2132, 7465, 1627,
      5645, 3243, 5432, 3654, 6543, 516, 3214, 2736, 4332, 1221, 3223,
      1627, 7665, 312, 6556, 1234, 5645, 3654, 7263, 5472, 1405, 7263,
      516, 6372, 1605, 7263, 516, 6372, 1605, 7263, 516, 6372, 1605
    >>

\* A line of play that does the same with 8 pieces left (ENDGAME).
EndgameCycle ==
    <<
      2132, 5445, 1221, 5243, 3254, 6543, 2536, 6354, 2332, 5647, 112,
      4725, 1436, 7463, 1625, 6352, 314, 7263, 3647, 4536, 2745, 5436,
      3254, 6345, 516, 3627, 2536, 2705, 3654, 523, 1234, 5041, 3443,
      5234, 4756, 6745, 2132, 4123, 1021, 7667, 2132, 2312, 5463, 1203,
      3241, 4536, 716, 3627, 6374, 2705, 7463, 312, 6374, 1203, 7463, 312,
      6374, 1203, 7463, 312, 6374, 1203, 7463, 312, 6374, 1203, 7463, 312,
      6374, 1203
    >>

\* The game checkersRefactor.py plays under random.seed(6): X captures the
\* last O piece on turn 74.
GameWonByX ==
    <<
      2334, 5647, 3443, 5234, 2543, 5432, 2143, 4736, 2745, 6756, 4567,
      6554, 4365, 7456, 1221, 5041, 2132, 4123, 1432, 5647, 3241, 6352,
      4163, 7254, 1627, 4736, 2745, 5436, 312, 6150, 1221, 7665, 112,
      5041, 2132, 4123, 1234, 7061, 716, 6150, 1625, 3614, 523, 6556,
      3445, 5634, 2345, 5041, 4556, 4130, 1021, 3012, 6776, 1203, 7665,
      314, 5667, 1405, 6556, 516, 5645, 1625, 4534, 2543, 6776, 4352,
      7665, 5241, 6554, 4130, 5443, 3041, 4332, 4123
    >>

\* The game checkersRefactor.py plays under random.seed(1): O captures the
\* last X piece on turn 79.
GameWonByO ==
    <<
      2334, 5647, 3443, 5234, 2543, 5432, 2143, 4736, 2745, 6756, 4567,
      6554, 4365, 7456, 1221, 5041, 2132, 4123, 1432, 5647, 3241, 6352,
      4163, 7254, 1627, 4736, 2745, 5436, 312, 6150, 1221, 7665, 112,
      5041, 2132, 4123, 1234, 7061, 716, 6150, 1625, 3614, 523, 6556,
      3445, 5634, 2345, 5041, 4554, 4130, 1021, 3012, 5465, 1203, 6576,
      314, 7665, 1425, 6556, 2534, 5647, 3443, 4756, 4334, 5647, 3443,
      4756, 4334, 5645, 3456, 6776, 5645, 7667, 4536, 6776, 3645, 7667,
      4556, 6745
    >>

\* The game checkersRefactor.py plays under random.seed(33): positions
\* repeat up to six times and _choose_random_move supplies moves.
GameWithRandomMoves ==
    <<
      2334, 5647, 3443, 5234, 2543, 5432, 2143, 4736, 2745, 6756, 4567,
      6554, 4365, 7456, 1221, 5041, 2132, 4123, 1432, 5647, 3241, 6352,
      4163, 7254, 1627, 4736, 2745, 5436, 312, 6150, 1221, 7665, 112,
      5041, 2132, 4123, 1234, 7061, 716, 6150, 1625, 3614, 523, 6556,
      3445, 5634, 2345, 5041, 4554, 4130, 1021, 3012, 5463, 1203, 6372,
      314, 7263, 1425, 6354, 2536, 5443, 3645, 4354, 4563, 6776, 6372,
      7667, 7261, 6776, 6152, 7667, 5261, 6756, 6152, 5667, 5241, 6756,
      4152, 5667, 5261, 6776, 6170, 7667, 7061, 6776, 6170, 7667, 7061,
      6756, 6152, 5667, 5261, 6756, 6170, 5665, 7061, 6554, 6150, 5443,
      5041, 4332, 4123
    >>

\* A line of play after which O, having moved, has no move left.
MoverOBlocked ==
    <<
      2334, 5041, 3443, 5432, 2143, 5234, 2543, 6352, 1021, 5234, 110,
      7263, 1223, 3412, 1425, 5647, 314, 1203, 2534, 325, 2132, 4123,
      1021, 2543, 2736, 4725, 1634, 4325, 514, 2503, 2132, 2314, 716,
      1405, 3241, 527, 4152
    >>

\* A line of play after which X, having moved, has no move left.
MoverXBlocked ==
    <<
      2334, 5443, 1223, 5645, 3456, 6745, 2534, 4325, 1436, 6354, 2332,
      5443, 3654, 7667, 5476, 5241, 3254, 7263, 5472, 4132, 2143, 7465,
      7654, 6756, 1625, 5041, 7250, 4132, 716, 5645, 5436, 7061, 5072,
      3223, 7263, 2312
    >>

\* A line of play in which X leaves O without a move.
OBlockedByX ==
    <<
      2534, 5445, 2736, 4527, 3443, 5234, 2345, 5634, 2130, 6756, 1221,
      6354, 112, 5445, 1223, 3412, 1625, 6152, 516, 2705, 2132, 523, 321,
      2341, 2132, 4123, 716, 2314, 1627, 1436, 3041, 5230, 1021, 3012
    >>

\* A line of play in which O leaves X without a move.
XBlockedByO ==
    <<
      2736, 5243, 2132, 4321, 1230, 5443, 1021, 6554, 2334, 6352, 112,
      5645, 3456, 6745, 1423, 4527, 2536, 5241, 3052, 7463, 5274, 7665,
      7456, 6152, 5645, 4334, 4563, 7254, 2345, 5041, 4563, 7061, 6372,
      4130, 7250, 5241, 5032
    >>

\* A line of play after which neither player has a move: O's capture on turn
\* 69 leaves four X men on row 7 behind eight O men on rows 5 and 6.
BothBlocked ==
    <<
      2536, 5647, 1425, 6756, 2332, 5241, 3645, 4123, 4567, 6352, 1234,
      6556, 2132, 4736, 2547, 5645, 3456, 5241, 5665, 4123, 4756, 6152,
      2736, 5445, 3654, 2312, 321, 5241, 2130, 4132, 3041, 3223, 4152,
      2314, 523, 5041, 2334, 4132, 3443, 3223, 1021, 2314, 2132, 1405,
      5263, 527, 4352, 2736, 3241, 3625, 4150, 2514, 716, 1405, 1625, 516,
      2534, 1627, 110, 2736, 1021, 3645, 3443, 4534, 5261, 3452, 2130,
      5241, 3052
    >>

\* A line of play of 200 turns in which no 40 turns pass without a capture and
\* both players can still move at the end.
TurnLimitGame ==
    << 2736, 5443, 2334, 5041, 1627, 6354, 1423, 7263, 516, 5647, 2130, 6150, 1021, 6756,
       110, 7061, 314, 7667, 3445, 5634, 2345, 6556, 2534, 4325, 1634, 4725, 1436, 7465,
       716, 5647, 1625, 6556, 1223, 5443, 2132, 4321, 1032, 6354, 4563, 5243, 3452, 6143,
       3052, 4321, 6374, 2110, 2334, 1001, 7463, 112, 3443, 1201, 6354, 5645, 5261, 4534,
       5465, 3416, 3645, 4736, 6554, 3625, 4352, 2514, 5465, 1605, 6172, 1403, 4554, 514,
       7261, 312, 6172, 1223, 6574, 1403, 5463, 312, 2736, 2332, 7261, 1203, 3645, 312,
       6170, 110, 4556, 6745, 7061, 3241, 6170, 1203, 7465, 4534, 6576, 3423, 7667, 4132,
       7061, 2314, 6170, 3223, 6776, 1001, 7061, 2332, 6172, 1405, 5261, 514, 6170, 1405,
       7261, 312, 6372, 3221, 6152, 5041, 5230, 514, 3041, 2130, 4152, 1203, 5243, 112,
       4354, 1221, 7263, 1405, 6374, 314, 5443, 2110, 4332, 1001, 7061, 110, 7665, 1001,
       3243, 110, 6554, 3021, 7463, 516, 6150, 2132, 4321, 1032, 6374, 1605, 5463, 1425,
       6352, 514, 7463, 3223, 5041, 2516, 4130, 1627, 5243, 1425, 6354, 2736, 5465, 2334,
       4354, 3647, 3041, 2514, 6576, 1423, 7667, 2314, 4150, 3423, 6756, 4765, 5476, 2334,
       5061, 1403, 6172, 3445, 7667, 4554, 7261, 5443, 6172, 4334, 7261, 314, 6756, 3425,
       5645, 2516, 4536, 1423 >>

\* A game whose 89th turn is the 40th in a row without a capture and leaves X
\* without a move.
DrawBeforeWinGame ==
    << 2534, 5243, 3452, 6143, 2736, 7061, 2130, 4332, 2341, 5032, 1625, 6152, 1221, 5647,
       2143, 5234, 2543, 4725, 1436, 5432, 314, 6756, 716, 3223, 1432, 6554, 3647, 7667, 4765,
       7456, 112, 5443, 3254, 6345, 1021, 4536, 1625, 3614, 523, 5647, 2332, 6756, 3243, 7261,
       1223, 6150, 3041, 5032, 2341, 5645, 2130, 4536, 4352, 3625, 5263, 4736, 6372, 2514,
       7261, 1403, 4150, 312, 6152, 1201, 5241, 110, 4132, 1001, 3221, 110, 2112, 1001, 1221,
       3627, 2110, 112, 1021, 1203, 2110, 314, 1021, 1405, 2112, 516, 1223, 1607, 2314, 2716,
       1405 >>

Scripts ==
    <<OpeningCycle, MiddleCycle, EndgameCycle, GameWonByX, GameWonByO,
      GameWithRandomMoves, MoverOBlocked, MoverXBlocked, OBlockedByX, XBlockedByO,
      BothBlocked, TurnLimitGame, DrawBeforeWinGame>>

MoveCode(move) ==
    move.start.row * 1000 + move.start.col * 100 + move.end.row * 10 + move.end.col

\* A script in progress: the game state reached, whether the script has
\* stopped (the game left Playing, or the next move of the script is not in
\* the generated list), and the boards on which its turns started.
Line(g, stopped, starts) == [game |-> g, stopped |-> stopped, starts |-> starts]

\* The turn of the script line that plays the move written as code: the pair
\* of the generated list with that move (any generated pair is a selection of
\* the turn, see choose_move and choose_random_move).
ScriptedTurn(impl, line, code) ==
    LET g == line.game
        moves == generate_moves(g.board, g.current_player).moves
        found == {k \in 1..Len(moves) : MoveCode(moves[k].move) = code}
    IN  IF found = {}
        THEN Line(g, TRUE, line.starts)
        ELSE LET pair == moves[CHOOSE k \in found : TRUE]
                 g2 == CHOOSE r \in play_turn(impl, g, Selection(pair, <<>>, FALSE)) : TRUE
             IN  Line(g2, g2.state # PLAYING, Append(line.starts, g.board))

\* The script after its turns lo..hi, played from line.
RECURSIVE ReplayRange(_, _, _, _, _)
ReplayRange(impl, line, script, lo, hi) ==
    IF line.stopped \/ lo > hi
    THEN line
    ELSE IF lo = hi
    THEN ScriptedTurn(impl, line, script[lo])
    ELSE ReplayRange(impl, ReplayRange(impl, line, script, lo, (lo + hi) \div 2),
                     script, (lo + hi) \div 2 + 1, hi)

\* For each script, the numbers of turns played at which the exploration
\* starts, in increasing order.
Checkpoints ==
    << <<0, 24, 34, 38, 42, 64>>,
       <<30, 40, 44>>,
       <<43, 49, 58, 66>>,
       <<52, 72>>,
       <<68, 77>>,
       <<88, 100>>,
       <<36>>, <<35>>, <<33, 34>>, <<36>>,
       <<68>>,
       <<198>>,
       <<88>> >>

\* The script at the checkpoints stops, line being the script after turns
\* turns.
RECURSIVE Replay(_, _, _, _, _)
Replay(impl, line, script, turns, stops) ==
    IF stops = <<>>
    THEN {}
    ELSE LET at == ReplayRange(impl, line, script, turns + 1, Head(stops))
         IN  IF at.stopped
             THEN {at}
             ELSE {at} \cup Replay(impl, at, script, Head(stops), Tail(stops))

\* Turns explored after a checkpoint.
MaxSteps == 2

VARIABLES
    impl,                   \* which program runs: checkersRefactor.py or checkers.py
    board,                  \* self.board / tab
    current_player,         \* current_player / jogador
    turn_count,             \* turn_count / turno + 1
    turns_without_capture,  \* self.turns_without_capture / sem_progresso
    position_history,       \* self.position_history / historico_posicoes
    state,                  \* Playing, Draw, Win(X), Win(O) or TurnLimitReached
    winner,                 \* the winner announced, "none" while Playing
    started,                \* the boards on which the turns of the game started
    last,                   \* what the last turn did
    steps,                  \* turns taken since the checkpoint
    search,                 \* a call of _alpha_beta / alfa_beta and its result
    heap,                   \* the CheckersBoard objects and who holds them
    call                    \* a call of MoveGenerator.generate_moves in progress

vars ==
    <<impl, board, current_player, turn_count, turns_without_capture,
      position_history, state, winner, started, last, steps, search, heap, call>>

controller_vars ==
    <<impl, board, current_player, turn_count, turns_without_capture,
      position_history, state, winner, started, last, steps>>

\* The record of a turn: the board, mover, counter and occurrence count it
\* started with, the searches it ran, whether random.choice supplied the pair,
\* the maximizing flag of its searches, the pair it selected.
TurnRecord(g, sel, played) ==
    [played |-> played, board |-> g.board, mover |-> g.current_player,
     turns_without_capture |-> g.turns_without_capture,
     count |-> IF played
               THEN track_position(g.position_history, g.board)[hash_position(g.board)]
               ELSE 0,
     searches |-> sel.searches, random |-> sel.random,
     maximizing |-> ai_maximizing(g.current_player),
     move |-> sel.pair.move, new_board |-> sel.pair.board]

NoTurn(g) == TurnRecord(g, Selection(Pair(g.board, None), <<>>, FALSE), FALSE)

CurrentGame ==
    Game(board, current_player, turn_count, turns_without_capture,
         position_history, state, winner)

SetGame(g) ==
    /\ board = g.board
    /\ current_player = g.current_player
    /\ turn_count = g.turn_count
    /\ turns_without_capture = g.turns_without_capture
    /\ position_history = g.position_history
    /\ state = g.state
    /\ winner = g.winner

\* No search, no generator call under observation.
NoSearch ==
    [board |-> setup_board, depth |-> 0, maximizing |-> TRUE, game_phase |-> OPENING,
     done |-> FALSE, score |-> 0, best_board |-> None, best_move |-> None,
     pruned |-> FALSE]

NoHeap == [objects |-> <<>>, self_board |-> 0, mover |-> PlayerO, held |-> <<>>]

\* The one object ref, held with the grid it has.
Holding(grid) == [ref \in {1} |-> grid]

NoCall ==
    [pc |-> "idle", player |-> PlayerO, key |-> 0, new_board |-> 0, move |-> None,
     capture_moves |-> <<>>, regular_moves |-> <<>>, returned |-> <<>>,
     before |-> EmptyGrid, applied |-> FALSE, receiver_before |-> EmptyGrid,
     result |-> None, calls |-> 0]

Init ==
    /\ \E i \in Impls, s \in 1..Len(Scripts) :
           \E line \in Replay(i, Line(NewGame, FALSE, <<>>), Scripts[s], 0,
                               Checkpoints[s]) :
               /\ impl = i
               /\ SetGame(line.game)
               /\ started = line.starts
               /\ last = NoTurn(line.game)
               /\ steps = 0
    /\ search = NoSearch
    /\ heap = NoHeap
    /\ call = NoCall

\* One iteration of the game loop, with the result announced when it ends.
Turn ==
    /\ state = PLAYING
    /\ steps < MaxSteps
    /\ \E sel \in turn_selections(impl, CurrentGame) :
           \E g \in play_turn(impl, CurrentGame, sel) :
               /\ board' = g.board
               /\ current_player' = g.current_player
               /\ turn_count' = g.turn_count
               /\ turns_without_capture' = g.turns_without_capture
               /\ position_history' = g.position_history
               /\ state' = g.state
               /\ winner' = g.winner
               /\ last' = TurnRecord(CurrentGame, sel, TRUE)
    /\ started' = Append(started, board)
    /\ steps' = steps + 1
    /\ UNCHANGED <<impl, search, heap, call>>

Next == Turn

Spec == Init /\ [][Next]_vars

\* The games in their last turns: the turns left before max_turns are all
\* explored. The loop is sequential code whose every statement returns, so an
\* iteration that can run does run.
InitLastTurns ==
    /\ Init
    /\ turn_count + MaxSteps >= max_turns

SpecLastTurns == InitLastTurns /\ [][Next]_vars /\ WF_vars(Turn)

\* ---------------------------------------------------------------------------
\* The search as a function: _alpha_beta / alfa_beta called at the root, as
\* choose_move and jogar call it, on boards of the lines of play above.
\* ---------------------------------------------------------------------------

\* Largest depth of the searches run.
MaxDepth == 3

\* The last element of a non-empty sequence.
Last(seq) == seq[Len(seq)]

\* The games observed: the new game and each script at its last checkpoint.
ObservedGames ==
    {NewGame} \cup
    { line.game : line \in UNION { Replay(REFACTOR, Line(NewGame, FALSE, <<>>),
                                          Scripts[s], 0, << Last(Checkpoints[s]) >>) :
                                   s \in 1..Len(Scripts) } }

\* The boards searched.
SearchBoards == {g.board : g \in ObservedGames}

\* The controller at rest, while another part of the program is observed.
ControllerAtRest ==
    /\ impl = REFACTOR
    /\ SetGame(NewGame)
    /\ started = <<>>
    /\ last = NoTurn(NewGame)
    /\ steps = 0

InitSearch ==
    /\ ControllerAtRest
    /\ \E grid \in SearchBoards, depth \in 0..MaxDepth, maximizing \in BOOLEAN,
          game_phase \in {OPENING, MIDDLE} :
           search = [board |-> grid, depth |-> depth, maximizing |-> maximizing,
                     game_phase |-> game_phase, done |-> FALSE, score |-> 0,
                     best_board |-> None, best_move |-> None, pruned |-> FALSE]
    /\ heap = NoHeap
    /\ call = NoCall

\* _alpha_beta(board, depth, float('-inf'), float('inf'), maximizing, game_phase).
RunSearch ==
    /\ ~search.done
    /\ \E found \in {alpha_beta(search.board, search.depth, -INF, INF,
                                 search.maximizing, search.game_phase, 0)} :
           search' = [search EXCEPT !.done = TRUE, !.score = found.score,
                                    !.best_board = found.board,
                                    !.best_move = found.move,
                                    !.pruned = found.pruned]
    /\ UNCHANGED <<controller_vars, heap, call>>

NextSearch == RunSearch

SpecSearch == InitSearch /\ [][NextSearch]_vars

\* ---------------------------------------------------------------------------
\* The boards as objects: heap.objects[ref] is the grid of the CheckersBoard
\* object ref, heap.self_board the object the game holds as self.board,
\* heap.held the grid each object had when a caller of the generator came to
\* hold it (self.board, and the boards of the list the generator returned).
\* One action per statement of generate_moves that creates or changes an
\* object; objects nobody holds any more are dropped.
\* ---------------------------------------------------------------------------

\* Calls of generate_moves observed.
MaxCalls == 2

\* CheckersBoard.clone with the list of rows shared instead of copied: the
\* clone is the object itself.
clone_shared(objects, ref) == [objects |-> objects, new_board |-> ref]

\* CheckersBoard.clone (lines 182-186): a new object with a deep copy of the
\* grid; the objects after the call and the reference returned.
clone(objects, ref) ==
    [objects |-> Append(objects, objects[ref]), new_board |-> Len(objects) + 1]

\* The loop iterations from key on that make a move on grid: a capture found
\* by _check_capture (lines 232-235) or a plain step (lines 237-245).
MovingKeys(grid, player, key) ==
    {k \in LoopKeys(grid, player) :
        /\ k >= key
        /\ \/ can_capture(grid, KeyPosition(k), KeyDirection(grid, k), player)
           \/ can_step(grid, KeyPosition(k), KeyDirection(grid, k), player)}

\* The Move built in iteration k (lines 267 and 243).
MoveAt(grid, player, k) ==
    IF can_capture(grid, KeyPosition(k), KeyDirection(grid, k), player)
    THEN Move(KeyPosition(k),
              PosAdd(PosAdd(KeyPosition(k), KeyDirection(grid, k)), KeyDirection(grid, k)),
              TRUE, PosAdd(KeyPosition(k), KeyDirection(grid, k)))
    ELSE Move(KeyPosition(k), PosAdd(KeyPosition(k), KeyDirection(grid, k)), FALSE, None)

\* The board with one X man on (5,0) and one O man on (2,1), and the board
\* with the O man on (4,1) instead.
ScenarioBoard ==
    set_piece(set_piece(EmptyGrid, Position(5, 0), X), Position(2, 1), O)

CaptureScenarioBoard ==
    set_piece(set_piece(EmptyGrid, Position(5, 0), X), Position(4, 1), O)

\* The boards the generator is called on and their movers: those of the
\* games observed, and the two scenario boards with X to move.
GeneratorInputs ==
    {[board |-> g.board, mover |-> g.current_player] : g \in ObservedGames}
    \cup {[board |-> grid, mover |-> PlayerX] :
             grid \in {ScenarioBoard, CaptureScenarioBoard}}

InitObjects ==
    /\ ControllerAtRest
    /\ search = NoSearch
    /\ \E input \in GeneratorInputs :
           heap = [objects |-> << input.board >>, self_board |-> 1,
                   mover |-> input.mover, held |-> Holding(input.board)]
    /\ call = NoCall

\* MoveGenerator(self.board).generate_moves(player) is called: for the mover
\* by the search, for either player by _check_game_over / _is_game_over.
GenerateMoves ==
    /\ call.pc = "idle"
    /\ call.calls < MaxCalls
    /\ \E player \in Players :
           call' = [NoCall EXCEPT !.pc = "loop", !.player = player,
                                  !.before = heap.objects[heap.self_board],
                                  !.calls = call.calls]
    /\ heap' = [heap EXCEPT !.objects = << heap.objects[heap.self_board] >>,
                            !.self_board = 1,
                            !.held = Holding(heap.held[heap.self_board])]
    /\ UNCHANGED <<controller_vars, search>>

\* new_board = self.board.clone() and move = Move(...) in the next iteration
\* that finds a move (lines 266-267 / 242-243).
CloneBoard ==
    /\ call.pc = "loop"
    /\ MovingKeys(heap.objects[heap.self_board], call.player, call.key) # {}
    /\ LET grid == heap.objects[heap.self_board]
           k == MinOf(MovingKeys(grid, call.player, call.key))
           cloned == clone(heap.objects, heap.self_board)
       IN  /\ heap' = [heap EXCEPT !.objects = cloned.objects]
           /\ call' = [call EXCEPT !.pc = "cloned", !.key = k + 1,
                                   !.new_board = cloned.new_board,
                                   !.move = MoveAt(grid, call.player, k)]
    /\ UNCHANGED <<controller_vars, search>>

\* new_board.apply_move(move) and the append to captures or regular_moves
\* (lines 268-269 / 244-245). apply_move changes its receiver and returns
\* None.
ApplyMove ==
    /\ call.pc = "cloned"
    /\ heap' = [heap EXCEPT !.objects[call.new_board] = apply_move(@, call.move)]
    /\ call' = [call EXCEPT
                   !.pc = "loop",
                   !.applied = TRUE,
                   !.receiver_before = heap.objects[call.new_board],
                   !.result = None,
                   !.capture_moves = IF call.move.is_capture
                                     THEN Append(@, Pair(call.new_board, call.move))
                                     ELSE @,
                   !.regular_moves = IF call.move.is_capture
                                     THEN @
                                     ELSE Append(@, Pair(call.new_board, call.move))]
    /\ UNCHANGED <<controller_vars, search>>

\* The loops are done: return capture_moves or regular_moves (lines 246-249).
\* The caller now holds the boards of the returned list.
Return ==
    /\ call.pc = "loop"
    /\ MovingKeys(heap.objects[heap.self_board], call.player, call.key) = {}
    /\ LET returned == IF call.capture_moves # <<>>
                       THEN call.capture_moves ELSE call.regular_moves
           refs == {returned[i].board : i \in 1..Len(returned)}
       IN  /\ call' = [call EXCEPT !.pc = "idle", !.returned = returned,
                                   !.calls = call.calls + 1]
           /\ heap' = [heap EXCEPT
                          !.held = [ref \in DOMAIN heap.held \cup refs |->
                                        IF ref \in DOMAIN heap.held
                                        THEN heap.held[ref]
                                        ELSE heap.objects[ref]]]
    /\ UNCHANGED <<controller_vars, search>>

\* self.board = new_board (line 513) with a board of the list returned for
\* the mover; the other boards are held no more.
PlayMove ==
    /\ call.pc = "idle"
    /\ call.player = heap.mover
    /\ \E i \in 1..Len(call.returned) :
           heap' = [objects |-> << heap.objects[call.returned[i].board] >>,
                    self_board |-> 1,
                    mover |-> IF heap.mover = PlayerO THEN PlayerX ELSE PlayerO,
                    held |-> Holding(heap.held[call.returned[i].board])]
    /\ call' = [NoCall EXCEPT !.calls = call.calls]
    /\ UNCHANGED <<controller_vars, search>>

NextObjects ==
    \/ GenerateMoves
    \/ CloneBoard
    \/ ApplyMove
    \/ Return
    \/ PlayMove

SpecObjects == InitObjects /\ [][NextObjects]_vars

\* ---------------------------------------------------------------------------
\* simpleCheckers.py, the simple implementation. Its boards are grids of its
\* own glyphs: the kings are 'X' and 'O'. A square is <<linha, coluna>> and a
\* move << origem, destino >>.
\* ---------------------------------------------------------------------------
SIMPLE == "simpleCheckers.py"

BOARD_SIZE == 8
PLAYER_X == "x"
PLAYER_O == "o"
KING_X == "X"
KING_O == "O"
MAX_SEM_CAPTURA == 20

\* str.lower and str.isupper on a glyph.
Lower(peca) ==
    IF peca = KING_X THEN PLAYER_X ELSE IF peca = KING_O THEN PLAYER_O ELSE peca

IsUpper(peca) == peca \in {KING_X, KING_O}

\* inicializar_tabuleiro.
inicializar_tabuleiro ==
    [linha \in 0..(BOARD_SIZE - 1) |-> [coluna \in 0..(BOARD_SIZE - 1) |->
        IF (linha + coluna) % 2 = 1 /\ linha < 3 THEN PLAYER_O
        ELSE IF (linha + coluna) % 2 = 1 /\ linha > 4 THEN PLAYER_X
        ELSE EMPTY]]

\* 0 <= linha < BOARD_SIZE and 0 <= coluna < BOARD_SIZE.
InBoard(linha, coluna) ==
    /\ 0 <= linha /\ linha < BOARD_SIZE
    /\ 0 <= coluna /\ coluna < BOARD_SIZE

\* movimento_valido.
movimento_valido(tabuleiro, linha, coluna) ==
    /\ InBoard(linha, coluna)
    /\ tabuleiro[PyIndex(linha)][PyIndex(coluna)] = EMPTY

\* captura_valida.
captura_valida(tabuleiro, linha, coluna, linha_meio, coluna_meio, linha_destino, coluna_destino, inimigos) ==
    /\ InBoard(linha_destino, coluna_destino)
    /\ tabuleiro[PyIndex(linha_meio)][PyIndex(coluna_meio)] \in inimigos
    /\ tabuleiro[PyIndex(linha_destino)][PyIndex(coluna_destino)] = EMPTY

\* One iteration of the loops of movimentos_peca (lines 47-54) and of
\* movimentos_dama (lines 64-71): the moves it appends.
DirecaoMovimentos(tabuleiro, linha, coluna, desloc_linha, desloc_coluna, inimigos) ==
    (IF movimento_valido(tabuleiro, linha + desloc_linha, coluna + desloc_coluna)
     THEN << << <<linha, coluna>>, <<linha + desloc_linha, coluna + desloc_coluna>> >> >>
     ELSE <<>>)
    \o
    (IF captura_valida(tabuleiro, linha, coluna, linha + desloc_linha,
                       coluna + desloc_coluna, linha + 2 * desloc_linha,
                       coluna + 2 * desloc_coluna, inimigos)
     THEN << << <<linha, coluna>>,
                <<linha + 2 * desloc_linha, coluna + 2 * desloc_coluna>> >> >>
     ELSE <<>>)

\* movimentos_dama.
movimentos_dama(tabuleiro, linha, coluna, inimigos) ==
    DirecaoMovimentos(tabuleiro, linha, coluna, -1, -1, inimigos)
    \o DirecaoMovimentos(tabuleiro, linha, coluna, -1, 1, inimigos)
    \o DirecaoMovimentos(tabuleiro, linha, coluna, 1, -1, inimigos)
    \o DirecaoMovimentos(tabuleiro, linha, coluna, 1, 1, inimigos)

\* movimentos_peca.
movimentos_peca(tabuleiro, linha, coluna, peca, direcao, inimigos) ==
    DirecaoMovimentos(tabuleiro, linha, coluna, direcao, -1, inimigos)
    \o DirecaoMovimentos(tabuleiro, linha, coluna, direcao, 1, inimigos)
    \o (IF IsUpper(peca) THEN movimentos_dama(tabuleiro, linha, coluna, inimigos)
        ELSE <<>>)

\* The loops of movimentos_validos (lines 36-40) over the squares lo..hi,
\* numbered BOARD_SIZE * linha + coluna.
RECURSIVE MovimentosRange(_, _, _, _)
MovimentosRange(tabuleiro, jogador, lo, hi) ==
    IF lo = hi
    THEN IF Lower(tabuleiro[lo \div BOARD_SIZE][lo % BOARD_SIZE]) = jogador
         THEN movimentos_peca(tabuleiro, lo \div BOARD_SIZE, lo % BOARD_SIZE,
                              tabuleiro[lo \div BOARD_SIZE][lo % BOARD_SIZE],
                              IF Lower(jogador) = PLAYER_X THEN -1 ELSE 1,
                              IF Lower(jogador) = PLAYER_X THEN {PLAYER_O, KING_O}
                              ELSE {PLAYER_X, KING_X})
         ELSE <<>>
    ELSE MovimentosRange(tabuleiro, jogador, lo, (lo + hi) \div 2)
         \o MovimentosRange(tabuleiro, jogador, (lo + hi) \div 2 + 1, hi)

\* movimentos_validos.
movimentos_validos(tabuleiro, jogador) ==
    MovimentosRange(tabuleiro, jogador, 0, BOARD_SIZE * BOARD_SIZE - 1)

\* promover_dama, as the board it leaves behind.
promover_dama(tabuleiro, linha, coluna, peca) ==
    IF peca = PLAYER_X /\ linha = 0
    THEN [tabuleiro EXCEPT ![linha][coluna] = KING_X]
    ELSE IF peca = PLAYER_O /\ linha = BOARD_SIZE - 1
    THEN [tabuleiro EXCEPT ![linha][coluna] = KING_O]
    ELSE tabuleiro

\* aplicar_movimento: (novo_tabuleiro, captura).
aplicar_movimento(tabuleiro, movimento) ==
    LET origem == movimento[1]
        destino == movimento[2]
        peca == tabuleiro[origem[1]][origem[2]]
        captura == Abs(destino[1] - origem[1]) = 2
        moved == [tabuleiro EXCEPT ![origem[1]][origem[2]] = EMPTY,
                                   ![destino[1]][destino[2]] = peca]
        taken == IF captura
                 THEN [moved EXCEPT ![(origem[1] + destino[1]) \div 2]
                                     [(origem[2] + destino[2]) \div 2] = EMPTY]
                 ELSE moved
    IN  [tabuleiro |-> promover_dama(taken, destino[1], destino[2], peca),
         captura |-> captura]

\* oponente.
oponente(jogador) == IF jogador = PLAYER_X THEN PLAYER_O ELSE PLAYER_X

\* jogo (lines 159-161): the game before its first turn.
NewSimpleGame == Game(inicializar_tabuleiro, PLAYER_X, 0, 0, <<>>, PLAYING, "none")

\* jogo lines 167-169: the player to move has no move.
jogo_no_moves(g) ==
    Game(g.board, g.current_player, g.turn_count, g.turns_without_capture, <<>>,
         IF oponente(g.current_player) = PLAYER_X THEN WIN_X ELSE WIN_O,
         oponente(g.current_player))

\* jogo lines 172-180: the iteration that plays melhor_movimento.
jogo_turn(g, melhor_movimento) ==
    The({ The({ IF jogadas_sem_captura >= MAX_SEM_CAPTURA
                THEN Game(applied.tabuleiro, g.current_player, g.turn_count + 1,
                          jogadas_sem_captura, <<>>, DRAW, "draw")
                ELSE Game(applied.tabuleiro, oponente(g.current_player),
                          g.turn_count + 1, jogadas_sem_captura, <<>>, PLAYING, "none") :
                jogadas_sem_captura \in {IF applied.captura THEN 0
                                         ELSE g.turns_without_capture + 1} }) :
          applied \in {aplicar_movimento(g.board, melhor_movimento)} })

\* The game jogo plays: its alpha_beta draws no random number.
SimpleGame ==
    << 5041, 2130, 4132, 1221, 5241, 3052, 6341, 112, 5443, 2130, 6152, 1221, 5645, 312,
       6554, 2334, 3223, 1432, 4123, 3456, 2301, 2534, 4325, 1634, 5443, 514, 112, 716,
       1201, 1423, 112, 2132, 4321, 1032, 6745, 1625, 1201, 2536, 112, 3241, 7061, 3654,
       5243, 4152, 4332, 2341, 6143, 3452, 1201, 4150, 110, 2736, 1001, 3041, 110, 3645,
       1001, 4556, 110, 5261, 1001, 6170, 110, 4152, 1001, 5061, 110, 5263 >>

\* The numbers of turns played at which the exploration of jogo starts.
SimpleCheckpoints == {0, 3, 16, 28, 43, 66}

\* A move of the simple implementation for the number that writes it.
SimpleMove(code) ==
    << <<code \div 1000, (code \div 100) % 10>>, <<(code \div 10) % 10, code % 10>> >>

\* jogo after the turns lo..hi of script, played from g; a move that is not
\* in the list of movimentos_validos is not played.
RECURSIVE SimpleReplay(_, _, _, _)
SimpleReplay(g, script, lo, hi) ==
    IF lo > hi \/ g.state # PLAYING
    THEN g
    ELSE IF lo = hi
    THEN The({ IF \E i \in 1..Len(movimentos) : movimentos[i] = SimpleMove(script[lo])
               THEN jogo_turn(g, SimpleMove(script[lo]))
               ELSE jogo_no_moves(g) :
               movimentos \in {movimentos_validos(g.board, g.current_player)} })
    ELSE The({ SimpleReplay(half, script, (lo + hi) \div 2 + 1, hi) :
               half \in {SimpleReplay(g, script, lo, (lo + hi) \div 2)} })

\* The record of a turn of jogo: the board and mover it started with, the
\* list movimentos_validos returned and the move played.
SimpleRecord(g, movimentos, movimento, played) ==
    [played |-> played, board |-> g.board, mover |-> g.current_player,
     movimentos |-> movimentos, move |-> movimento]

InitSimple ==
    /\ impl = SIMPLE
    /\ \E turns \in SimpleCheckpoints :
           \E g \in {SimpleReplay(NewSimpleGame, SimpleGame, 1, turns)} :
               /\ SetGame(g)
               /\ last = SimpleRecord(g, <<>>, <<>>, FALSE)
    /\ started = <<>>
    /\ steps = 0
    /\ search = NoSearch
    /\ heap = NoHeap
    /\ call = NoCall

\* One iteration of the loop of jogo. alpha_beta returns a move of the list
\* movimentos_validos gave it; every move of the list is admitted.
SimpleTurn ==
    /\ state = PLAYING
    /\ steps < MaxSteps
    /\ \E movimentos \in {movimentos_validos(board, current_player)} :
           IF movimentos = <<>>
           THEN \E g \in {jogo_no_moves(CurrentGame)} :
                    /\ board' = g.board
                    /\ current_player' = g.current_player
                    /\ turn_count' = g.turn_count
                    /\ turns_without_capture' = g.turns_without_capture
                    /\ position_history' = g.position_history
                    /\ state' = g.state
                    /\ winner' = g.winner
                    /\ last' = SimpleRecord(CurrentGame, movimentos, <<>>, FALSE)
           ELSE \E i \in 1..Len(movimentos) :
                    \E g \in {jogo_turn(CurrentGame, movimentos[i])} :
                        /\ board' = g.board
                        /\ current_player' = g.current_player
                        /\ turn_count' = g.turn_count
                        /\ turns_without_capture' = g.turns_without_capture
                        /\ position_history' = g.position_history
                        /\ state' = g.state
                        /\ winner' = g.winner
                        /\ last' = SimpleRecord(CurrentGame, movimentos, movimentos[i], TRUE)
    /\ steps' = steps + 1
    /\ UNCHANGED <<impl, started, search, heap, call>>

NextSimple == SimpleTurn

SpecSimple == InitSimple /\ [][NextSimple]_vars

\* ---------------------------------------------------------------------------
\* The squares the generators index. Python evaluates `a and b` left to right
\* and stops at the first false operand; a square is indexed when the operand
\* that reads it is evaluated.
\* ---------------------------------------------------------------------------

\* _check_capture without landing_pos.is_valid() in its test.
check_capture_reads_no_landing_test(grid, position, direction, player) ==
    LET enemy_pos == PosAdd(position, direction)
        landing_pos == PosAdd(enemy_pos, direction)
    IN  IF is_valid(enemy_pos)
        THEN IF is_enemy_piece(grid, enemy_pos, player)
             THEN <<enemy_pos, landing_pos>>
             ELSE <<enemy_pos>>
        ELSE <<>>

\* The squares the test of _check_capture indexes (lines 260-263):
\* is_enemy_piece reads enemy_pos, is_empty reads landing_pos.
check_capture_reads(grid, position, direction, player) ==
    LET enemy_pos == PosAdd(position, direction)
        landing_pos == PosAdd(enemy_pos, direction)
    IN  IF is_valid(enemy_pos) /\ is_valid(landing_pos)
        THEN IF is_enemy_piece(grid, enemy_pos, player)
             THEN <<enemy_pos, landing_pos>>
             ELSE <<enemy_pos>>
        ELSE <<>>

\* The square the else branch of generate_moves indexes (lines 238-240).
regular_move_reads(grid, position, direction, player) ==
    IF can_capture(grid, position, direction, player)
    THEN <<>>
    ELSE IF is_valid(PosAdd(position, direction))
    THEN << PosAdd(position, direction) >>
    ELSE <<>>

\* The elements of a sequence.
Range(seq) == {seq[i] : i \in 1..Len(seq)}

\* The squares one call of generate_moves indexes: every square of the two
\* range(8) loops (line 223), and those of the loop bodies.
generate_moves_reads(grid, player) ==
    {Position(row, col) : row \in Rows, col \in Cols}
    \cup UNION { Range(check_capture_reads(grid, KeyPosition(key),
                                           KeyDirection(grid, key), player))
                 \cup Range(regular_move_reads(grid, KeyPosition(key),
                                               KeyDirection(grid, key), player)) :
                 key \in LoopKeys(grid, player) }

\* The squares lines 68 and 78 of gerar_movimentos index for one direction d
\* of the piece on position: tab[ni][nj] after dentro(ci, cj), tab[ci][cj],
\* tab[ni][nj] again in eh_inimigo, then tab[ni][nj] after dentro(ni, nj).
gerar_movimentos_direction_reads(grid, position, direction, player) ==
    LET n == PosAdd(position, direction)
        c == PosAdd(n, direction)
    IN  (IF is_valid(c)
         THEN IF get_piece(grid, n) # EMPTY
              THEN IF get_piece(grid, c) = EMPTY THEN <<n, c, n>> ELSE <<n, c>>
              ELSE <<n>>
         ELSE <<>>)
        \o
        (IF ~can_capture(grid, position, direction, player) /\ is_valid(n)
         THEN <<n>>
         ELSE <<>>)

\* The squares one call of gerar_movimentos indexes.
gerar_movimentos_reads(grid, player) ==
    {Position(row, col) : row \in Rows, col \in Cols}
    \cup UNION { Range(gerar_movimentos_direction_reads(grid, KeyPosition(key),
                                                        KeyDirection(grid, key), player)) :
                 key \in LoopKeys(grid, player) }

\* The squares movimento_valido and captura_valida index in one iteration of
\* the loops of movimentos_peca and movimentos_dama.
DirecaoReads(tabuleiro, linha, coluna, desloc_linha, desloc_coluna, inimigos) ==
    (IF InBoard(linha + desloc_linha, coluna + desloc_coluna)
     THEN << Position(linha + desloc_linha, coluna + desloc_coluna) >>
     ELSE <<>>)
    \o
    (IF InBoard(linha + 2 * desloc_linha, coluna + 2 * desloc_coluna)
     THEN IF tabuleiro[PyIndex(linha + desloc_linha)][PyIndex(coluna + desloc_coluna)]
                \in inimigos
          THEN << Position(linha + desloc_linha, coluna + desloc_coluna),
                  Position(linha + 2 * desloc_linha, coluna + 2 * desloc_coluna) >>
          ELSE << Position(linha + desloc_linha, coluna + desloc_coluna) >>
     ELSE <<>>)

\* The squares one call of movimentos_validos indexes.
movimentos_validos_reads(tabuleiro, jogador) ==
    {Position(linha, coluna) : linha \in 0..(BOARD_SIZE - 1), coluna \in 0..(BOARD_SIZE - 1)}
    \cup UNION { UNION { Range(DirecaoReads(tabuleiro, sq \div BOARD_SIZE, sq % BOARD_SIZE,
                                             d[1], d[2],
                                             IF Lower(jogador) = PLAYER_X
                                             THEN {PLAYER_O, KING_O}
                                             ELSE {PLAYER_X, KING_X})) :
                         d \in IF IsUpper(tabuleiro[sq \div BOARD_SIZE][sq % BOARD_SIZE])
                               THEN {<<-1, -1>>, <<-1, 1>>, <<1, -1>>, <<1, 1>>}
                               ELSE IF Lower(jogador) = PLAYER_X
                               THEN {<<-1, -1>>, <<-1, 1>>}
                               ELSE {<<1, -1>>, <<1, 1>>} } :
                 sq \in {k \in 0..(BOARD_SIZE * BOARD_SIZE - 1) :
                            Lower(tabuleiro[k \div BOARD_SIZE][k % BOARD_SIZE]) = jogador} }

\* A board of the two larger programs in the glyphs of simpleCheckers.py.
SimpleGlyphs(grid) ==
    [row \in Rows |-> [col \in Cols |->
        IF grid[row][col] = X_KING THEN KING_X
        ELSE IF grid[row][col] = O_KING THEN KING_O
        ELSE grid[row][col]]]

\* ---------------------------------------------------------------------------
\* Properties of the generator on the boards the game reaches.
\* ---------------------------------------------------------------------------

\* Some piece of player can capture in some direction of its own.
CaptureAvailable(grid, player) ==
    \E row \in Rows, col \in Cols :
        /\ is_player_piece(grid, Position(row, col), player)
        /\ \E i \in 1..Len(get_piece_directions(grid, Position(row, col))) :
               can_capture(grid, Position(row, col),
                           get_piece_directions(grid, Position(row, col))[i], player)

\* C1: on every reachable board and for either player, if a capture is
\* available to any of the player's pieces, the generator reports
\* has_captures and every move of the list it returns is a capture (a jump of
\* two rows); no plain step is in the list.
ForcedCapture ==
    \A player \in Players :
        CaptureAvailable(board, player) =>
            LET generated == generate_moves(board, player)
            IN  /\ generated.has_captures
                /\ generated.moves # <<>>
                /\ \A i \in 1..Len(generated.moves) :
                       /\ generated.moves[i].move.is_capture
                       /\ Abs(generated.moves[i].move.end.row
                              - generated.moves[i].move.start.row) = 2

\* C1, its case: the mover of the last turn had captures and plain steps to
\* choose from, and the turn played a capture.
ForcedCaptureWitness ==
    /\ last.played
    /\ last.move # None
    /\ last.move.is_capture
    /\ CaptureAvailable(last.board, last.mover)
    /\ regular_moves(last.board, last.mover) # <<>>

\* C4: on every reachable board every light square, (row + col) even, is
\* empty.
LightSquaresEmpty ==
    \A row \in Rows, col \in Cols :
        (row + col) % 2 = 0 => board[row][col] = EMPTY

\* C4, its case: a board reached by a turn, with kings of both players on it
\* and fewer than the 24 pieces of the initial board (steps, captures and
\* promotions led to it).
LightSquaresWitness ==
    /\ last.played
    /\ board # last.board
    /\ CountOf(board, {X_KING}) > 0
    /\ CountOf(board, {O_KING}) > 0
    /\ CountOf(board, {X, O, X_KING, O_KING}) < 24

\* What the landing square of a generated pair must hold.
LandsAs(grid, pair) ==
    LET piece == get_piece(grid, pair.move.start)
    IN  IF piece = X /\ pair.move.end.row = 0 THEN X_KING
        ELSE IF piece = O /\ pair.move.end.row = 7 THEN O_KING
        ELSE piece

\* C5: for every capture and every plain step the generator finds on a
\* reachable board, an X man landing on row 0 is an X king on the resulting
\* board and an O man landing on row 7 an O king; a man landing elsewhere is
\* still a man and a king is still a king of the same player.
PromotionOnLanding ==
    \A player \in Players :
        LET found == capture_moves(board, player) \o regular_moves(board, player)
        IN  \A i \in 1..Len(found) :
                /\ get_piece(board, found[i].move.start) # EMPTY
                /\ get_piece(found[i].board, found[i].move.end) = LandsAs(board, found[i])

\* C5, its case: the last turn landed a man on its promotion row and the
\* board now holds a king there.
PromotionWitness ==
    /\ last.played
    /\ last.move # None
    /\ get_piece(last.board, last.move.start) \in {X, O}
    /\ get_piece(board, last.move.end) \in {X_KING, O_KING}
    /\ board = last.new_board

\* ---------------------------------------------------------------------------
\* Properties of the game controller.
\* ---------------------------------------------------------------------------

\* The number of pieces on a grid.
TotalPieces(grid) == CountOf(grid, {X, O, X_KING, O_KING})

\* C7: the turn searches once, at depth 4, 5 or 6 by the number of pieces
\* (more than 16, 9 to 16, at most 8) when the occurrence count of its board
\* is 1 or 2, and at depth 2 when the count is 3 or 4.
DepthByCountAndPieces ==
    last.played =>
        /\ last.count \in {1, 2} =>
               last.searches = << IF TotalPieces(last.board) > 16 THEN 4
                                  ELSE IF TotalPieces(last.board) > 8 THEN 5
                                  ELSE 6 >>
        /\ last.count \in {3, 4} => last.searches = <<2>>

\* C7, its case: a turn on the third or fourth occurrence of a board with at
\* most 8 pieces, where the depth by phase would be 6.
DepthTwoWitness ==
    /\ last.played
    /\ last.count \in {3, 4}
    /\ TotalPieces(last.board) <= 8
    /\ last.searches = <<2>>

\* C8: after a turn the no-capture counter is 0 if the selected move was a
\* capture and one more than before otherwise; the game is in Draw exactly
\* when the counter is 40, the counter is below 40 while Playing and never
\* above 40.
NoCaptureCounter ==
    /\ last.played =>
           turns_without_capture =
               IF last.move # None /\ last.move.is_capture
               THEN 0
               ELSE last.turns_without_capture + 1
    /\ state = DRAW <=> turns_without_capture = 40
    /\ state = PLAYING => turns_without_capture < 40
    /\ turns_without_capture <= 40

\* C8, its case: a turn without capture takes the counter from 39 to 40 and
\* the game to Draw.
DrawWitness ==
    /\ last.played
    /\ last.turns_without_capture = 39
    /\ turns_without_capture = 40
    /\ state = DRAW

\* C10: a turn that selects a board with no O piece on it ends the game with
\* Win(X): not Playing, Draw, Win(O) or TurnLimitReached.
NoOPiecesIsWinX ==
    /\ (last.played /\ CountOf(last.new_board, {O, O_KING}) = 0) =>
           /\ state = WIN_X
           /\ winner = "x"
           /\ board = last.new_board
    /\ CountOf(board, {O, O_KING}) = 0 => state = WIN_X

\* C10, its case: X has captured the last O piece.
NoOPiecesWitness ==
    /\ last.played
    /\ last.mover = PlayerX
    /\ CountOf(last.board, {O, O_KING}) = 1
    /\ CountOf(board, {O, O_KING}) = 0
    /\ state = WIN_X

\* C6: a turn on a board whose occurrence count, this turn included, is above
\* 4 runs no search at all, and the pair it selects is the pick of
\* random.choice from the mover's generated list.
RandomMoveBypassesSearch ==
    (last.played /\ last.count > 4) =>
        /\ last.searches = <<>>
        /\ last.random
        /\ \E i \in 1..Len(generate_moves(last.board, last.mover).moves) :
               generate_moves(last.board, last.mover).moves[i]
                   = Pair(last.new_board, last.move)

MaxOf(S) == CHOOSE n \in S : \A m \in S : n >= m

\* Plain minimax: O maximizes, X minimizes, with the generator, the evaluator
\* and the terminal test of the search.
RECURSIVE minimax(_, _, _, _)
minimax(grid, depth, maximizing, game_phase) ==
    IF depth = 0 \/ is_game_over(grid)
    THEN evaluate(grid, game_phase, 0)
    ELSE LET moves == generate_moves(grid, IF maximizing THEN PlayerO ELSE PlayerX).moves
             values == {minimax(moves[i].board, depth - 1, ~maximizing, game_phase) :
                          i \in 1..Len(moves)}
         IN  IF maximizing THEN MaxOf(values) ELSE MinOf(values)

\* C2: in the phases without jitter (OPENING, MIDDLE) the score the search
\* returns from the window (-infinity, +infinity) is the minimax score of the
\* same board, depth and side to move.
AlphaBetaIsMinimax ==
    search.done =>
        search.score = minimax(search.board, search.depth, search.maximizing,
                               search.game_phase)

\* C2, its case: a search of depth 2 or more in which a break left moves
\* unvisited.
PruningWitness ==
    /\ search.done
    /\ search.depth >= 2
    /\ search.pruned

\* ---------------------------------------------------------------------------
\* Properties of the board objects.
\* ---------------------------------------------------------------------------

\* C3 as stated: apply_move leaves the board it is applied to as it was,
\* on all 64 squares, and returns a new board.
ApplyMoveKeepsReceiver ==
    call.applied =>
        /\ heap.objects[call.new_board] = call.receiver_before
        /\ call.result # None

\* C3 as the code has it: apply_move changes its receiver, and the receiver
\* is a clone no caller holds yet. Every board a caller holds -- the board
\* passed to the generator, the boards of the lists it returned -- reads on
\* all 64 squares as it did when the caller came to hold it; the board passed
\* to the generator reads as it did when the call began.
HeldBoardsUnchanged ==
    /\ \A ref \in DOMAIN heap.held : heap.objects[ref] = heap.held[ref]
    /\ call.pc # "idle" => heap.objects[heap.self_board] = call.before
    /\ call.pc = "cloned" => call.new_board \notin DOMAIN heap.held
    /\ call.applied => call.result = None

\* C3, its case: the generator has returned a list of boards made by
\* apply_move with captures, and the board it was called on is held
\* unchanged.
HeldBoardsWitness ==
    /\ call.pc = "idle"
    /\ call.applied
    /\ call.returned # <<>>
    /\ heap.objects[heap.self_board] = call.before
    /\ \E i \in 1..Len(call.returned) :
           /\ call.returned[i].move.is_capture
           /\ heap.objects[call.returned[i].board] # call.before
\* ---------------------------------------------------------------------------
\* The end of the game.
\* ---------------------------------------------------------------------------

\* C11: the game is Playing only while fewer than max_turns turns were played
\* and eventually leaves Playing; it ends in TurnLimitReached only after
\* max_turns turns, on a board where both players have a move, with the
\* no-capture counter below the draw limit.
GameEnds ==
    /\ [](/\ turn_count <= max_turns
          /\ state = PLAYING => turn_count < max_turns
          /\ state = TURN_LIMIT =>
                 /\ turn_count = max_turns
                 /\ generate_moves(board, PlayerX).moves # <<>>
                 /\ generate_moves(board, PlayerO).moves # <<>>
                 /\ turns_without_capture < DRAW_LIMIT)
    /\ <>(state # PLAYING)

\* C11: turn 200 was played and the game ended in TurnLimitReached.
TurnLimitWitness ==
    /\ last.played
    /\ state = TURN_LIMIT
    /\ turn_count = max_turns

\* ---------------------------------------------------------------------------
\* The order of the turns.
\* ---------------------------------------------------------------------------

\* C12: turn n is O's when n is odd and X's when n is even; the move played
\* moves a piece of the mover; the searches of the turn maximize exactly when
\* the mover is O.
TurnsAlternate ==
    /\ state = PLAYING =>
           current_player = IF turn_count % 2 = 0 THEN PlayerO ELSE PlayerX
    /\ last.played =>
           /\ last.mover = IF turn_count % 2 = 1 THEN PlayerO ELSE PlayerX
           /\ last.move # None =>
                  /\ is_player_piece(last.board, last.move.start, last.mover)
                  /\ is_player_piece(last.new_board, last.move.end, last.mover)
           /\ last.searches # <<>> => (last.maximizing <=> last.mover = PlayerO)

\* C12: X has played an even turn with a move found by a search, and the
\* game goes on with O.
TurnsAlternateWitness ==
    /\ last.played
    /\ last.mover = PlayerX
    /\ turn_count % 2 = 0
    /\ last.searches # <<>>
    /\ last.move # None
    /\ ~last.maximizing
    /\ state = PLAYING
    /\ current_player = PlayerO

\* ---------------------------------------------------------------------------
\* The geometry of the generated moves.
\* ---------------------------------------------------------------------------

\* Move m of pair, generated for player on grid, is a plain step or a single
\* jump of the piece on its start square, in a direction of that piece, and
\* the board of the pair is grid with that move made.
LegalPair(grid, player, pair) ==
    LET m == pair.move
        piece == grid[m.start.row][m.start.col]
        dr == m.end.row - m.start.row
        dc == m.end.col - m.start.col
        changed == {m.start, m.end} \cup (IF m.is_capture THEN {m.captured_position} ELSE {})
    IN  /\ is_valid(m.start)
        /\ is_valid(m.end)
        /\ m.start.row \in Rows /\ m.start.col \in Cols
        /\ m.end.row \in Rows /\ m.end.col \in Cols
        /\ is_player_piece(grid, m.start, player)
        /\ grid[m.end.row][m.end.col] = EMPTY
        /\ piece = X => dr < 0
        /\ piece = O => dr > 0
        /\ IF m.is_capture
           THEN /\ Abs(dr) = 2 /\ Abs(dc) = 2
                /\ m.captured_position
                       = Position(m.start.row + dr \div 2, m.start.col + dc \div 2)
                /\ is_enemy_piece(grid, m.captured_position, player)
                /\ pair.board[m.captured_position.row][m.captured_position.col] = EMPTY
           ELSE /\ Abs(dr) = 1 /\ Abs(dc) = 1
                /\ m.captured_position = None
        /\ pair.board[m.start.row][m.start.col] = EMPTY
        /\ is_player_piece(pair.board, m.end, player)
        /\ \A row \in Rows, col \in Cols :
               Position(row, col) \notin changed => pair.board[row][col] = grid[row][col]

\* C13: every move the generator returns on a reachable board, for either
\* player, is a plain step to an empty square one diagonal step away or a
\* jump over an enemy piece to the empty square two steps away, forward for a
\* man and in any diagonal for a king, and the resulting board differs from
\* the source board on the start, end and captured squares only.
GeneratedMovesAreLegal ==
    \A player \in Players :
        \A generated \in {generate_moves(board, player).moves} :
            \A i \in 1..Len(generated) : LegalPair(board, player, generated[i])

\* C13: the list generated for the mover holds a move of a king away from
\* the opponent's edge, and the list of some player holds a jump.
LegalMovesWitness ==
    /\ state = PLAYING
    /\ \E generated \in {generate_moves(board, current_player).moves} :
           \E i \in 1..Len(generated) :
               LET m == generated[i].move
               IN  \/ /\ board[m.start.row][m.start.col] = X_KING
                      /\ m.end.row > m.start.row
                   \/ /\ board[m.start.row][m.start.col] = O_KING
                      /\ m.end.row < m.start.row
    /\ \E player \in Players : generate_moves(board, player).has_captures

\* ---------------------------------------------------------------------------
\* The pair the search returns.
\* ---------------------------------------------------------------------------

\* The minimax values of the moves of the mover of a search, in generator
\* order.
RootValues(grid, depth, maximizing, game_phase) ==
    LET moves == generate_moves(grid, IF maximizing THEN PlayerO ELSE PlayerX).moves
    IN  [i \in 1..Len(moves) |->
            minimax(moves[i].board, depth - 1, ~maximizing, game_phase)]

\* The first index of values that holds the optimum of the mover.
FirstBest(values, maximizing) ==
    LET optimum == IF maximizing THEN MaxOf({values[i] : i \in DOMAIN values})
                   ELSE MinOf({values[i] : i \in DOMAIN values})
    IN  MinOf({i \in DOMAIN values : values[i] = optimum})

\* The mover of the search has a move and the search goes below the root.
SearchMoves ==
    /\ search.done
    /\ search.depth > 0
    /\ ~is_game_over(search.board)

NoMoveExactlyAtLeaves ==
    search.done =>
        LET moves == generate_moves(search.board,
                                    IF search.maximizing THEN PlayerO ELSE PlayerX).moves
        IN  IF \/ search.depth = 0
               \/ generate_moves(search.board, PlayerX).moves = <<>>
               \/ generate_moves(search.board, PlayerO).moves = <<>>
            THEN /\ search.best_move = None
                 /\ search.best_board = search.board
            ELSE /\ search.best_move # None
                 /\ \E i \in 1..Len(moves) :
                        moves[i] = Pair(search.best_board, search.best_move)

\* C15: a search of depth 1 or more whose mover has moves, on a board where
\* the other player has none, has returned no move.
NoMoveWitness ==
    /\ search.done
    /\ search.depth > 0
    /\ generate_moves(search.board,
                      IF search.maximizing THEN PlayerO ELSE PlayerX).moves # <<>>
    /\ generate_moves(search.board,
                      IF search.maximizing THEN PlayerX ELSE PlayerO).moves = <<>>
    /\ search.best_move = None

\* ---------------------------------------------------------------------------
\* The simple implementation.
\* ---------------------------------------------------------------------------

\* The move is a capture: its row changes by 2.
SimpleCapture(movimento) == Abs(movimento[2][1] - movimento[1][1]) = 2

\* C20 as stated: when the list movimentos_validos returns for a player holds
\* a capture it holds only captures, and so the move jogo plays on a turn
\* that had a capture is a capture.
SimpleForcedCapture ==
    /\ \A jogador \in {PLAYER_X, PLAYER_O} :
           \A movimentos \in {movimentos_validos(board, jogador)} :
               (\E i \in 1..Len(movimentos) : SimpleCapture(movimentos[i]))
                   => \A i \in 1..Len(movimentos) : SimpleCapture(movimentos[i])
    /\ last.played =>
           ((\E i \in 1..Len(last.movimentos) : SimpleCapture(last.movimentos[i]))
               => SimpleCapture(last.move))

\* ---------------------------------------------------------------------------
\* The squares the generators index.
\* ---------------------------------------------------------------------------

\* C16: on every reachable board and for either player, every square that
\* generate_moves, gerar_movimentos and movimentos_validos index has
\* 0 <= row < 8 and 0 <= col < 8.
NoOutOfBoundsRead ==
    \A player \in Players :
        \A position \in generate_moves_reads(board, player)
                        \cup gerar_movimentos_reads(board, player)
                        \cup movimentos_validos_reads(SimpleGlyphs(board), player) :
            is_valid(position)

\* C16: a piece of the mover stands next to an enemy piece on the edge, whose
\* far side is off the board, and another direction of a piece of the mover
\* leaves the board at once.
EdgeWitness ==
    /\ \E key \in LoopKeys(board, current_player) :
           /\ is_valid(PosAdd(KeyPosition(key), KeyDirection(board, key)))
           /\ is_enemy_piece(board, PosAdd(KeyPosition(key), KeyDirection(board, key)),
                             current_player)
           /\ ~is_valid(PosAdd(PosAdd(KeyPosition(key), KeyDirection(board, key)),
                               KeyDirection(board, key)))
    /\ \E key \in LoopKeys(board, current_player) :
           ~is_valid(PosAdd(KeyPosition(key), KeyDirection(board, key)))

\* ---------------------------------------------------------------------------
\* The occurrence counts.
\* ---------------------------------------------------------------------------

\* The board whose 64 glyphs, row after row, are key.
BoardOfKey(key) == [row \in 0..7 |-> [col \in 0..7 |-> key[8 * row + col + 1]]]

\* The number of turns of the game that started on grid, whoever moved.
TurnsStartedOn(grid) == Cardinality({i \in 1..Len(started) : started[i] = grid})

\* C17: the key of a board is its 64 squares and nothing else, and two boards
\* have one key only if they are one board: every key of position_history is
\* the key of exactly one board, the count stored for it is the number of
\* turns of the game that started on that board, whichever player moved, and
\* every board on which a turn started has its key in position_history.
HashCountsTurns ==
    /\ \A key \in DOMAIN position_history :
           \E grid \in {BoardOfKey(key)} :
               /\ hash_position(grid) = key
               /\ position_history[key] = TurnsStartedOn(grid)
               /\ position_history[key] >= 1
    /\ \A i \in 1..Len(started) :
           hash_position(started[i]) \in DOMAIN position_history

\* C17: a turn was played in a game with kings on the board, in which one
\* board started three turns or more and another board fewer.
HashCountsWitness ==
    /\ last.played
    /\ \E k \in 0..63 : is_king(board, Position(k \div 8, k % 8))
    /\ \E key \in DOMAIN position_history : position_history[key] >= 3
    /\ \E key \in DOMAIN position_history : position_history[key] = 1

\* ---------------------------------------------------------------------------
\* The scenario of the lone X man on (5,0).
\* ---------------------------------------------------------------------------

\* The list the call of generate_moves that has just returned gave back, as
\* (grid of new_board, move) pairs.
ReturnedPairs ==
    [i \in 1..Len(call.returned) |->
        Pair(heap.objects[call.returned[i].board], call.returned[i].move)]

\* A call of generate_moves for X on grid has just returned.
ReturnedForXOn(grid) ==
    /\ call.pc = "idle"
    /\ call.calls >= 1
    /\ call.player = PlayerX
    /\ call.before = grid

\* C18 as stated: on the board with one X man on (5,0) and one O man on
\* (2,1), generate_moves for X returns exactly one move, the capture
\* (5,0)->(3,2) that captures (4,1).
ScenarioReturnsCapture ==
    ReturnedForXOn(ScenarioBoard)
    => /\ Len(call.returned) = 1
       /\ call.returned[1].move
              = Move(Position(5, 0), Position(3, 2), TRUE, Position(4, 1))

\* C18 amended: on the board with one X man on (5,0) and one O man on (2,1),
\* generate_moves and gerar_movimentos for X return exactly one move, the
\* plain step (5,0)->(4,1), with the board it leads to; with the O man on
\* (4,1) instead, they return exactly one move, the capture (5,0)->(3,2)
\* that captures (4,1), with the board that holds the X man on (3,2) alone.
ScenarioReturnsOneMove ==
    /\ ReturnedForXOn(ScenarioBoard)
       => /\ ReturnedPairs
                = << Pair(set_piece(set_piece(EmptyGrid, Position(4, 1), X),
                                    Position(2, 1), O),
                          Move(Position(5, 0), Position(4, 1), FALSE, None)) >>
          /\ generate_moves(ScenarioBoard, PlayerX).moves = ReturnedPairs
    /\ ReturnedForXOn(CaptureScenarioBoard)
       => /\ ReturnedPairs
                = << Pair(set_piece(EmptyGrid, Position(3, 2), X),
                          Move(Position(5, 0), Position(3, 2), TRUE, Position(4, 1))) >>
          /\ generate_moves(CaptureScenarioBoard, PlayerX).moves = ReturnedPairs

\* C18: generate_moves for X has returned on the board with the X man on
\* (5,0) and the O man on (2,1), with one move in its list.
ScenarioWitness ==
    /\ ReturnedForXOn(ScenarioBoard)
    /\ Len(call.returned) = 1

\* ---------------------------------------------------------------------------
\* The draw and the win in one turn.
\* ---------------------------------------------------------------------------

\* The last turn played a move that is not a capture, that brought the
\* counter of turns without capture to 40 and that leaves a player without
\* a legal move.
DrawingMoveBlocks ==
    /\ last.played
    /\ last.move # None
    /\ ~last.move.is_capture
    /\ last.turns_without_capture + 1 = DRAW_LIMIT
    /\ \E player \in Players : generate_moves(last.new_board, player).moves = <<>>

\* C19: when the move of a turn is not a capture, brings the counter of turns
\* without capture to 40 and leaves a player without a legal move, the game
\* ends in Draw and no winner is announced.
DrawBeforeWin ==
    DrawingMoveBlocks => state = DRAW /\ winner = "draw"

\* C19: such a turn was played.
DrawBeforeWinWitness ==
    /\ DrawingMoveBlocks
    /\ turns_without_capture = DRAW_LIMIT

\* ---------------------------------------------------------------------------
\* The turns that start.
\* ---------------------------------------------------------------------------

\* Both players have a move on grid.
BothCanMove(grid) ==
    \A player \in Players : generate_moves(grid, player).moves # <<>>

\* C21: while the game is Playing, and so at the start of every turn, both
\* players have a legal move on the current board; every turn that was
\* played started on such a board and selected a move, by search or by
\* random.choice, that is not None, a move of the list generated for its
\* mover.
TurnsStartWithMoves ==
    /\ state = PLAYING => BothCanMove(board)
    /\ last.played
       => /\ BothCanMove(last.board)
          /\ last.move # None
          /\ \E moves \in {generate_moves(last.board, last.mover).moves} :
                 \E i \in 1..Len(moves) :
                     moves[i] = Pair(last.new_board, last.move)

\* C21: a turn whose move random.choice supplied was played and the game
\* goes on, on a board where a side has a single move left.
TurnsStartWitness ==
    /\ last.played
    /\ last.random
    /\ state = PLAYING
    /\ \E player \in Players : Len(generate_moves(board, player).moves) = 1

\* ---------------------------------------------------------------------------
\* The men and their promotion rows.
\* ---------------------------------------------------------------------------

\* No X man stands on row 0 of grid and no O man on row 7, and every
\* direction of every man of grid leads to a row of the board.
MenHaveForwardRow(grid) ==
    /\ \A col \in Cols : grid[0][col] # X /\ grid[7][col] # O
    /\ \A row \in Rows, col \in Cols :
           grid[row][col] \in {X, O}
           => \E directions \in {get_piece_directions(grid, Position(row, col))} :
                  /\ Len(directions) = 2
                  /\ \A i \in 1..Len(directions) : row + directions[i].row \in Rows

\* C22: on the current board, on the board the last turn selected and on
\* every board the generator returns for the mover, no X man stands on row 0
\* and no O man on row 7, so every man has a forward row on the board.
NoManOnPromotionRow ==
    /\ MenHaveForwardRow(board)
    /\ MenHaveForwardRow(last.new_board)
    /\ \E moves \in {generate_moves(board, current_player).moves} :
           \A i \in 1..Len(moves) : MenHaveForwardRow(moves[i].board)

\* C22: the last turn moved a man onto the promotion row of its player,
\* where it stands as a king.
PromotedManWitness ==
    /\ last.played
    /\ last.move # None
    /\ get_piece(last.board, last.move.start) \in {X, O}
    /\ last.move.end.row = (IF last.mover = PlayerX THEN 0 ELSE 7)
    /\ is_king(last.new_board, last.move.end)
    /\ board = last.new_board

\* ---------------------------------------------------------------------------
\* The piece counts along a game.
\* ---------------------------------------------------------------------------

\* The place of a phase in the order Opening, Middle, Endgame.
PhaseRank(game_phase) ==
    IF game_phase = OPENING THEN 1 ELSE IF game_phase = MIDDLE THEN 2 ELSE 3

\* From counts before to counts after, <<x_pieces, o_pieces>> each, nothing
\* changed or one player lost exactly one piece.
CountsStep(before, after) ==
    \/ after = before
    \/ after = <<before[1] - 1, before[2]>>
    \/ after = <<before[1], before[2] - 1>>

\* The boards of the game so far: those on which its turns started, then
\* the current board.
GameBoards == Append(started, board)

\* count_pieces of each board of the game so far.
GameCounts == [i \in 1..Len(GameBoards) |-> count_pieces(GameBoards[i])] \o <<>>

\* The rank of the phase of each board of the game so far.
GamePhases ==
    [i \in 1..Len(GameBoards) |-> PhaseRank(determine_game_phase(GameBoards[i]))] \o <<>>

\* The turns of the game that changed the counts, given the counts of its
\* boards.
CapturingTurns(counts) ==
    {i \in 1..(Len(counts) - 1) : counts[i + 1] # counts[i]}

\* C23: the game starts with 12 X and 12 O pieces; from the board of a turn
\* to the board of the next no count grows, and at most one count drops, by
\* one; the phase never moves backwards; the move of the last turn, when it
\* is a plain step, leaves both counts as they were and, when it is a
\* capture, leaves the count of the mover and lowers the count of the
\* opponent by exactly one; the captures of the game are the pieces missing
\* from the board, at most 24.
CountsNeverIncrease ==
    /\ count_pieces(setup_board) = <<12, 12>>
    /\ GameBoards[1] = setup_board
    /\ \E counts \in {GameCounts}, phases \in {GamePhases} :
           /\ \A i \in 1..(Len(counts) - 1) :
                  /\ CountsStep(counts[i], counts[i + 1])
                  /\ phases[i] <= phases[i + 1]
           /\ \E captures \in {Cardinality(CapturingTurns(counts))} :
                  /\ captures = 24 - (counts[Len(counts)][1] + counts[Len(counts)][2])
                  /\ captures <= 24
    /\ last.played /\ last.move # None
       => \E before \in {count_pieces(last.board)},
             after \in {count_pieces(last.new_board)} :
              IF ~last.move.is_capture
              THEN after = before
              ELSE IF last.mover = PlayerX
              THEN after = <<before[1], before[2] - 1>>
              ELSE after = <<before[1] - 1, before[2]>>

\* C23: the last turn played a capture that took the game from one phase to
\* the next, after an earlier capture of the same game.
CaptureChangesPhaseWitness ==
    /\ last.played
    /\ last.move # None
    /\ last.move.is_capture
    /\ board = last.new_board
    /\ PhaseRank(determine_game_phase(last.board))
          < PhaseRank(determine_game_phase(last.new_board))
    /\ CapturingTurns(GameCounts) # {}

====
